---- MODULE Spec2Model ----
(***************************************************************************)
(* Chapter Master: the story bible (story-bible/story-bible.json), the     *)
(* element factories that append to it (parse-premise, create-character,   *)
(* generate-chapter), the rule-based consistency checker with its auto-fix *)
(* step, and the two read-only operations (get-story-status, next-chapter).*)
(*                                                                         *)
(* Conventions of the translation from JavaScript:                         *)
(*  - an optional field is a sequence of length 0 (absent) or 1 (present); *)
(*  - a text whose content the code inspects (a plot thread's title, a     *)
(*    chapter's plotAdvancement, a plot thread's resolution) is a sequence *)
(*    of one-letter strings, so toLowerCase and includes are computed;     *)
(*  - an absent numeric parameter is 0 (falsy, as the code tests it);      *)
(*  - every operation is one atomic step: the design is single-process,    *)
(*    one invocation completing before the next begins.                    *)
(***************************************************************************)
EXTENDS Integers, Sequences, FiniteSets, TLC

VARIABLES
    storyBible,   \* the story-bible.json document, or NoBible when the file is absent
    result,       \* what the last operation returned, with the calls and writes it made
    assigned,     \* history: the ids given out so far in each collection of the document
    inflight      \* the create-character invocations between their load and their save

vars == <<storyBible, result, assigned, inflight>>

----------------------------------------------------------------------------
(* Enumerations *)

CHARACTER_TYPES == {"protagonist", "antagonist", "supporting", "minor"}
SCENE_TYPES == {"action", "dialogue", "exposition", "climax", "transition", "flashback"}
STORY_STATUS_OPTIONS ==
    {"draft", "in-progress", "review", "needs-revision", "completed", "published"}
PRIORITIES == {"high", "medium", "low"}

----------------------------------------------------------------------------
(* JavaScript helpers *)

Range(s) == {s[i] : i \in DOMAIN s}

\* Array.prototype.includes
Includes(s, x) == \E i \in DOMAIN s : s[i] = x

\* Math.max(...ids)
MaxOfSet(S) == CHOOSE m \in S : \A x \in S : x <= m

\* Array.prototype.indexOf, 1-based; 0 when absent
IndexOf(s, x) ==
    IF Includes(s, x) THEN CHOOSE i \in DOMAIN s : s[i] = x /\ \A j \in 1..(i - 1) : s[j] # x
    ELSE 0

\* Array.prototype.find as an optional value
First(hits) == IF Len(hits) > 0 THEN <<hits[1]>> ELSE <<>>

\* String.prototype.toLowerCase on a text of one-letter strings
LowerLetter(c) == CASE c = "A" -> "a" [] c = "B" -> "b" [] OTHER -> c
ToLowerCaseKeepsCase(t) == t

ToLowerCase(t) == [i \in DOMAIN t |-> LowerLetter(t[i])]

\* String.prototype.includes: t occurs in s as a contiguous run
StrIncludes(s, t) ==
    \E k \in 0..(Len(s) - Len(t)) : \A i \in 1..Len(t) : s[k + i] = t[i]

TruthyTextWhenPresent(o) == Len(o) = 1

\* truthiness of an optional text: present and not the empty string
TruthyText(o) == Len(o) = 1 /\ Len(o[1]) > 0

\* Array.prototype.sort((a, b) => a - b), by insertion
RECURSIVE InsertSorted(_, _)
InsertSorted(s, x) ==
    IF s = <<>> THEN <<x>>
    ELSE IF x < s[1] THEN <<x>> \o s
    ELSE <<s[1]>> \o InsertSorted(Tail(s), x)

RECURSIVE SortNumbers(_)
SortNumbers(s) ==
    IF s = <<>> THEN <<>>
    ELSE InsertSorted(SortNumbers(SubSeq(s, 1, Len(s) - 1)), s[Len(s)])

\* flatten a sequence of sequences, in order
RECURSIVE Flatten(_)
Flatten(ss) == IF ss = <<>> THEN <<>> ELSE ss[1] \o Flatten(Tail(ss))

----------------------------------------------------------------------------
(* The story bible *)

NoBible == [exists |-> FALSE]

\* the document parse-premise writes: meta and premise, no collection yet
InitialStoryBible ==
    [exists |-> TRUE, premise |-> TRUE, characters |-> <<>>, chapters |-> <<>>,
     scenes |-> <<>>, plotThreads |-> <<>>, stylePov |-> FALSE, updatedAt |-> 0,
     premiseStatus |-> "completed"]

\* fs.access(storyBiblePath) rejects
BibleMissing(sb) == ~sb.exists

\* a create-character that never looks for the premise
PremiseMissingIgnored(sb) == FALSE

\* !storyBible.premise
PremiseMissing(sb) == ~sb.premise

NextIdNoIncrement(collection) ==
    IF Len(collection) > 0
    THEN MaxOfSet({collection[i].id : i \in DOMAIN collection})
    ELSE 1

NextId(collection) ==
    IF Len(collection) > 0
    THEN MaxOfSet({collection[i].id : i \in DOMAIN collection}) + 1
    ELSE 1

----------------------------------------------------------------------------
(* The consistency checker *)

Issue(type, severity, characterId, chapterId, plotThreadId, a, b) ==
    [type |-> type, severity |-> severity, characterId |-> characterId,
     chapterId |-> chapterId, plotThreadId |-> plotThreadId, a |-> a, b |-> b]

\* chapters in the range [startChapter, endChapter]; endChapter 0 is "no upper end"
TargetChapters(chapters, startChapter, endChapter) ==
    SelectSeq(chapters, LAMBDA c :
        c.chapterNumber >= startChapter
        /\ (IF endChapter # 0 THEN c.chapterNumber <= endChapter ELSE TRUE))

UnlistedIssuesIgnoringList(character, chapters, scenes) ==
    LET characterScenes ==
            SelectSeq(scenes, LAMBDA s : Includes(s.characters, character.id))
        OfScene(scene) ==
            LET parentChapter == First(SelectSeq(chapters, LAMBDA c : c.id = scene.chapterId))
            IN  IF Len(parentChapter) = 1
                THEN <<Issue("character-unlisted", "moderate", character.id,
                             parentChapter[1].id, 0, 0, 0)>>
                ELSE <<>>
    IN  Flatten([k \in DOMAIN characterScenes |-> OfScene(characterScenes[k])])

\* the scenes of one character whose parent chapter does not list the character
UnlistedIssues(character, chapters, scenes) ==
    LET characterScenes ==
            SelectSeq(scenes, LAMBDA s : Includes(s.characters, character.id))
        OfScene(scene) ==
            LET parentChapter == First(SelectSeq(chapters, LAMBDA c : c.id = scene.chapterId))
            IN  IF Len(parentChapter) = 1
                   /\ ~Includes(parentChapter[1].characters, character.id)
                THEN <<Issue("character-unlisted", "moderate", character.id,
                             parentChapter[1].id, 0, 0, 0)>>
                ELSE <<>>
    IN  Flatten([k \in DOMAIN characterScenes |-> OfScene(characterScenes[k])])

ArcIssues(character, chapters) ==
    LET characterChapters ==
            SelectSeq(chapters, LAMBDA c : Includes(c.characters, character.id))
    IN  IF Len(character.arc) = 1 /\ Len(characterChapters) > 1
           /\ (character.arc[1] = "" \/ character.arc[1] = "To be developed")
        THEN <<Issue("character-arc-undefined", "minor", character.id, 0, 0, 0, 0)>>
        ELSE <<>>

checkCharacterConsistency(characters, chapters, scenes) ==
    LET OfCharacter(character) ==
            UnlistedIssues(character, chapters, scenes) \o ArcIssues(character, chapters)
    IN  Flatten([k \in DOMAIN characters |-> OfCharacter(characters[k])])

\* a chapter references a plot thread by id or by its title inside plotAdvancement
ChapterReferences(c, plotThread) ==
    \/ Includes(c.plotThreads, plotThread.id)
    \/ /\ Len(c.plotAdvancement) = 1
       /\ StrIncludes(ToLowerCase(c.plotAdvancement[1]), ToLowerCase(plotThread.title))

checkPlotConsistency(plotThreads, chapters) ==
    LET OfThread(plotThread) ==
            LET relevantChapters ==
                    SelectSeq(chapters, LAMBDA c : ChapterReferences(c, plotThread))
            IN  (IF Len(relevantChapters) = 0 /\ plotThread.status # "completed"
                 THEN <<Issue("plot-thread-unused", "minor", 0, 0, plotThread.id, 0, 0)>>
                 ELSE <<>>)
                \o
                (IF plotThread.status = "completed" /\ ~TruthyText(plotThread.resolution)
                 THEN <<Issue("plot-thread-unresolved", "moderate", 0, 0,
                              plotThread.id, 0, 0)>>
                 ELSE <<>>)
    IN  Flatten([k \in DOMAIN plotThreads |-> OfThread(plotThreads[k])])

IsGapFromOne(previous, next) == next - previous >= 1

\* chapterNumbers[i] - chapterNumbers[i - 1] > 1
IsGap(previous, next) == next - previous > 1

checkTimelineConsistency(chapters) ==
    LET numbers == [k \in DOMAIN chapters |-> chapters[k].chapterNumber]
        chapterNumbers == SortNumbers(SelectSeq(numbers, LAMBDA n : n # 0))
        GapAt(i) ==
            IF IsGap(chapterNumbers[i - 1], chapterNumbers[i])
            THEN <<Issue("chapter-sequence-gap", "minor", 0, 0, 0,
                         chapterNumbers[i - 1], chapterNumbers[i])>>
            ELSE <<>>
        DuplicateAt(i) ==
            IF IndexOf(chapterNumbers, chapterNumbers[i]) # i
            THEN <<Issue("duplicate-chapter-number", "critical", 0, 0, 0,
                         chapterNumbers[i], 0)>>
            ELSE <<>>
    IN  Flatten([i \in 1..(Len(chapterNumbers) - 1) |-> GapAt(i + 1)])
        \o Flatten([i \in 1..Len(chapterNumbers) |-> DuplicateAt(i)])

\* no factory gives a chapter a pov field, so every chapter in scope lacks it
checkStyleConsistency(chapters, stylePov) ==
    IF stylePov /\ Len(chapters) > 0
    THEN <<Issue("pov-undefined", "minor", 0, 0, 0, Len(chapters), 0)>>
    ELSE <<>>

ConservativeSkipsNothing(issue, fixMode) == FALSE

\* conservative mode passes over every issue that is not minor
ConservativeSkips(issue, fixMode) ==
    fixMode = "conservative" /\ issue.severity # "minor"

ReplaceInChapter(characters, characterId) == <<characterId>>

AddToChapter(characters, characterId) == Append(characters, characterId)

\* a fix that never looks at the list it appends to
AlreadyListedNever(characters, characterId) == FALSE

\* chapter.characters?.includes(issue.characterId), on the list as the fixes
\* before this one have left it
AlreadyListed(characters, characterId) == Includes(characters, characterId)

\* one issue of the auto-fix loop: the chapters after it, and whether it was fixed
FixOne(issue, chapters, fixMode) ==
    LET at == {i \in DOMAIN chapters : chapters[i].id = issue.chapterId}
        idx == IF at = {} THEN 0 ELSE CHOOSE i \in at : \A j \in at : i <= j
    IN  IF ConservativeSkips(issue, fixMode)
        THEN [chapters |-> chapters, fixed |-> FALSE]
        ELSE IF issue.type = "character-unlisted" /\ idx # 0
                /\ ~AlreadyListed(chapters[idx].characters, issue.characterId)
        THEN [chapters |->
                [chapters EXCEPT ![idx].characters =
                    AddToChapter(@, issue.characterId)],
              fixed |-> TRUE]
        ELSE [chapters |-> chapters, fixed |-> FALSE]

RECURSIVE autoFixIssues(_, _, _)
autoFixIssues(issues, chapters, fixMode) ==
    IF issues = <<>> THEN [chapters |-> chapters, fixedIssues |-> <<>>]
    ELSE LET one == FixOne(issues[1], chapters, fixMode)
             rest == autoFixIssues(Tail(issues), one.chapters, fixMode)
         IN  [chapters |-> rest.chapters,
              fixedIssues |-> (IF one.fixed THEN <<issues[1]>> ELSE <<>>)
                              \o rest.fixedIssues]

----------------------------------------------------------------------------
(* Results of the operations *)

\* what an operation's body ends with: a returned result object, or a thrown error
Completion(kind, op, success, error, aiCalls, writes, params) ==
    [kind |-> kind, op |-> op, success |-> success, error |-> error,
     aiCalls |-> aiCalls, writes |-> writes, params |-> params,
     failures |-> {}, issues |-> <<>>, fixedIssues |-> <<>>, suggestions |-> 0,
     id |-> 0, overall |-> 0, nextSteps |-> "none",
     nextChapter |-> <<>>, chapterNumber |-> 0]

Return(op, success, error, aiCalls, writes, params) ==
    Completion("return", op, success, error, aiCalls, writes, params)

\* cause: the call that failed
Throw(op, cause, aiCalls, writes, params) ==
    [Completion("throw", op, FALSE, "", aiCalls, writes, params)
        EXCEPT !.failures = {cause}]

\* an inner catch that gives up instead of going on with the baseline
AlsoFailedFatal(completion, swallowed) ==
    IF swallowed = {} THEN completion
    ELSE [completion EXCEPT !.failures = @ \cup swallowed, !.success = FALSE]

\* failures the body had already swallowed when it ended
AlsoFailed(completion, swallowed) ==
    [completion EXCEPT !.failures = @ \cup swallowed]

\* a direct function without its try/catch: the error reaches the caller
TryCatchAbsent(completion) == completion

\* the try/catch around every direct function: a thrown error becomes
\* {success: false, message, error: error.message}
TryCatch(completion) ==
    IF completion.kind = "throw"
    THEN [completion EXCEPT !.kind = "return", !.success = FALSE,
                            !.error = "error.message"]
    ELSE completion

Outcome(sb, completion) == [storyBible |-> sb, result |-> TryCatch(completion)]

\* no operation has run yet, or the file was edited by hand since the last one
NoResult(op) == Return(op, TRUE, "", 0, {}, [fault |-> "none"])

----------------------------------------------------------------------------
(* create-character *)

\* a failed save that leaves the new document behind all the same
FailedWriteKeepsChanges(sb, changed) == changed

\* fs.writeFile(storyBiblePath, ...) rejects: the file keeps the document sb it
\* held, the changed document is lost with the call
FailedWrite(sb, changed) == sb

createCharacterDirect(sb, p) ==
    LET op == "create-character" IN
    IF BibleMissing(sb)
    THEN Outcome(sb, Return(op, FALSE, "Story bible not found", 0, {}, p))
    ELSE IF p.fault = "read" THEN Outcome(sb, Throw(op, "read", 0, {}, p))
    ELSE IF PremiseMissing(sb)
    THEN Outcome(sb, Return(op, FALSE, "Premise not found", 0, {}, p))
    ELSE
    LET nextId == NextId(sb.characters)
        baseline ==
            [id |-> nextId, characterType |-> p.characterType, status |-> "draft",
             priority |-> p.priority, psychology |-> FALSE, traits |-> FALSE,
             arc |-> <<>>, updatedAt |-> p.now]
        aiCalls == IF p.generate THEN 1 ELSE 0
        \* aiCharacter is null when the response does not parse
        characterProfile ==
            IF p.generate /\ p.ai = "object"
            THEN [baseline EXCEPT !.psychology = TRUE, !.traits = TRUE,
                                 !.arc = <<"A defined arc">>]
            ELSE IF p.generate /\ p.ai = "objectNoArc"
            THEN [baseline EXCEPT !.psychology = TRUE, !.traits = TRUE,
                                 !.arc = <<"To be developed">>]
            ELSE baseline
        \* the inner try/catch around JSON.parse of the response
        swallowed == IF p.generate /\ p.ai = "unparseable"
                     THEN {"enrichment-parse"} ELSE {}
    IN  IF p.fault = "mkdir" THEN Outcome(sb, Throw(op, "mkdir", 0, {}, p))
        ELSE IF p.generate /\ p.ai = "reject"
        THEN Outcome(sb, Throw(op, "ai-call", aiCalls, {}, p))
        ELSE IF p.fault = "writeDoc"
        THEN Outcome(sb, AlsoFailed(Throw(op, "write-doc", aiCalls, {}, p), swallowed))
        ELSE IF p.fault = "writeBible"
        THEN Outcome(FailedWrite(sb, [sb EXCEPT !.characters =
                                            Append(@, characterProfile)]),
                     AlsoFailed(Throw(op, "write-bible", aiCalls, {"character"}, p),
                                swallowed))
        ELSE Outcome([sb EXCEPT !.characters = Append(@, characterProfile),
                                !.updatedAt = p.now],
                     AlsoFailed([Return(op, TRUE, "", aiCalls,
                                        {"character", "story-bible"}, p)
                                    EXCEPT !.id = nextId], swallowed))

----------------------------------------------------------------------------
(* generate-chapter *)

\* the placeholder scenes of one call: ids count on from the number of scenes
DefaultSceneCount == 3

\* the sceneCount parameter, an optional number: sceneCount = 3 when absent
SceneCount(p) == IF Len(p.sceneCount) = 1 THEN p.sceneCount[1] ELSE DefaultSceneCount

\* scene ids that start at 1 in every call
SceneIdFromOne(sb, i) == i

\* (storyBible.scenes?.length || 0) + i
SceneId(sb, i) == Len(sb.scenes) + i

\* scenes that are given the first character, whoever the chapter lists
SceneCharactersFirst(workingChapter) == <<1>>

\* characters: workingChapter.characters || []
SceneCharacters(workingChapter) == workingChapter.characters

NewScenes(sb, workingChapter, sceneCount, now) ==
    [i \in 1..sceneCount |->
        [id |-> SceneId(sb, i), chapterId |-> workingChapter.id,
         characters |-> SceneCharacters(workingChapter), sceneType |-> "dialogue",
         status |-> "draft", priority |-> "medium", updatedAt |-> now]]

\* an update that starts the chapter over as a draft
FoundAsDraft(chapter) == [chapter EXCEPT !.status = "draft"]

\* workingChapter = existingChapters.find((c) => c.id === chapterId): the
\* chapter object of the document itself, with every field it has
FoundChapter(chapter) == chapter

\* a scenes list that holds the scenes of the last call only
ReplaceScenes(list, ids) == ids

\* workingChapter.scenes.push(sceneId), for each scene of the call
PushScenes(list, ids) == list \o ids

generateChapterDirect(sb, p) ==
    LET op == "generate-chapter" IN
    IF BibleMissing(sb)
    THEN Outcome(sb, Return(op, FALSE, "Story bible not found", 0, {}, p))
    ELSE IF p.fault = "read" THEN Outcome(sb, Throw(op, "read", 0, {}, p))
    ELSE
    LET existingChapters == sb.chapters
        isNewChapter == p.chapterId = 0
        found == First(SelectSeq(existingChapters, LAMBDA c : c.id = p.chapterId))
    IN  IF ~isNewChapter /\ Len(found) = 0
        THEN Outcome(sb, Return(op, FALSE, "Chapter not found", 0, {}, p))
        ELSE
        LET nextId == NextId(existingChapters)
            nextChapterNum ==
                IF p.chapterNumber # 0 THEN p.chapterNumber
                ELSE IF Len(existingChapters) > 0
                THEN MaxOfSet({existingChapters[i].chapterNumber :
                                 i \in DOMAIN existingChapters}) + 1
                ELSE 1
            started ==
                IF isNewChapter
                THEN [id |-> nextId, chapterNumber |-> nextChapterNum,
                      status |-> "draft", priority |-> p.priority,
                      characters |-> p.characters, plotThreads |-> p.plotThreads,
                      plotAdvancement |-> <<>>, scenes |-> <<>>,
                      createdAt |-> p.now, updatedAt |-> p.now]
                ELSE FoundChapter(found[1])
            \* aiChapter is null when the response does not parse
            enhanced ==
                IF p.ai = "object"
                THEN [started EXCEPT !.plotAdvancement = p.plotAdvancement]
                ELSE started
            scenes ==
                IF p.generateScenes THEN NewScenes(sb, enhanced, SceneCount(p), p.now)
                ELSE <<>>
            swallowed == IF p.ai = "unparseable" THEN {"enrichment-parse"} ELSE {}
            workingChapter ==
                [enhanced EXCEPT !.scenes =
                    PushScenes(@, [k \in DOMAIN scenes |-> scenes[k].id])]
            chapterIndex ==
                CHOOSE i \in DOMAIN existingChapters :
                    /\ existingChapters[i].id = workingChapter.id
                    /\ \A j \in 1..(i - 1) : existingChapters[j].id # workingChapter.id
            chapters ==
                IF isNewChapter THEN Append(existingChapters, workingChapter)
                ELSE [existingChapters EXCEPT ![chapterIndex] = workingChapter]
        IN  IF p.fault = "mkdir" THEN Outcome(sb, Throw(op, "mkdir", 0, {}, p))
            ELSE IF p.ai = "reject" THEN Outcome(sb, Throw(op, "ai-call", 1, {}, p))
            ELSE IF p.fault = "writeDoc"
            THEN Outcome(sb, AlsoFailed(Throw(op, "write-doc", 1, {}, p), swallowed))
            ELSE IF p.fault = "writeBible"
            THEN Outcome(FailedWrite(sb, [sb EXCEPT !.chapters = chapters,
                                                    !.scenes = @ \o scenes]),
                         AlsoFailed(Throw(op, "write-bible", 1, {"chapter"}, p),
                                    swallowed))
            ELSE Outcome([sb EXCEPT !.chapters = chapters,
                                    !.scenes = @ \o scenes,
                                    !.updatedAt = p.now],
                         AlsoFailed([Return(op, TRUE, "", 1,
                                            {"chapter", "story-bible"}, p)
                                        EXCEPT !.id = workingChapter.id], swallowed))

----------------------------------------------------------------------------
(* parse-premise *)

\* a parse-premise that saves the story bible before it asks for the outline
WritesBeforeOutline(sb) == InitialStoryBible

\* what story-bible.json holds when a run fails after the analysis: the
\* document is written by the last statement only, so it is still sb
BeforeLastWrite(sb) == sb

parsePremiseDirect(sb, p) ==
    LET op == "parse-premise"
        aiCalls2 == IF p.generateOutline THEN 2 ELSE 1
        written == IF p.generateOutline THEN {"premise", "outline"} ELSE {"premise"}
    IN  IF ~p.premiseText THEN Outcome(sb, Throw(op, "no-premise-text", 0, {}, p))
        ELSE IF p.fault = "mkdir" THEN Outcome(sb, Throw(op, "mkdir", 0, {}, p))
        \* the analysis is required: a rejected call, an unparseable response and
        \* a response failing AiPremiseSchema.parse all throw
        ELSE IF p.ai = "reject" THEN Outcome(sb, Throw(op, "ai-call", 1, {}, p))
        ELSE IF p.ai = "unparseable"
        THEN Outcome(sb, Throw(op, "analysis-parse", 1, {}, p))
        ELSE IF p.ai = "invalid"
        THEN Outcome(sb, Throw(op, "analysis-schema", 1, {}, p))
        ELSE IF p.fault = "writePremise"
        THEN Outcome(sb, Throw(op, "write-doc", 1, {}, p))
        ELSE IF p.generateOutline /\ p.outlineAi = "reject"
        THEN Outcome(BeforeLastWrite(sb), Throw(op, "ai-call", 2, {"premise"}, p))
        ELSE IF p.generateOutline /\ p.fault = "writeOutline"
        THEN Outcome(BeforeLastWrite(sb), Throw(op, "write-doc", 2, {"premise"}, p))
        ELSE IF p.fault = "writeBible"
        THEN Outcome(sb, Throw(op, "write-bible", aiCalls2, written, p))
        ELSE Outcome([InitialStoryBible EXCEPT !.updatedAt = p.now],
                     Return(op, TRUE, "", aiCalls2, written \cup {"story-bible"}, p))

----------------------------------------------------------------------------
(* check-consistency *)

\* the issue list of one run, in the order the checks append to it
ConsistencyIssues(sb, p) ==
    LET targetChapters == TargetChapters(sb.chapters, p.startChapter, p.endChapter)
        characters ==
            IF p.characterId # 0
            THEN SelectSeq(sb.characters, LAMBDA c : c.id = p.characterId)
            ELSE sb.characters
        plotThreads ==
            IF p.plotThreadId # 0
            THEN SelectSeq(sb.plotThreads, LAMBDA t : t.id = p.plotThreadId)
            ELSE sb.plotThreads
    IN  (IF p.checkType \in {"character", "all"}
         THEN checkCharacterConsistency(characters, targetChapters, sb.scenes)
         ELSE <<>>)
        \o (IF p.checkType \in {"plot", "all"}
            THEN checkPlotConsistency(plotThreads, targetChapters) ELSE <<>>)
        \o (IF p.checkType \in {"timeline", "all"}
            THEN checkTimelineConsistency(targetChapters) ELSE <<>>)
        \o (IF p.checkType \in {"style", "all"}
            THEN checkStyleConsistency(targetChapters, sb.stylePov) ELSE <<>>)

\* an advisory analysis asked for on every run that has a session
AdvisoryCallAlways(issues, session) == session

\* issues.length > 0 && session
AdvisoryCall(issues, session) == Len(issues) > 0 /\ session

checkConsistencyDirect(sb, p) ==
    LET op == "check-consistency" IN
    IF BibleMissing(sb)
    THEN Outcome(sb, Return(op, FALSE, "Story bible not found", 0, {}, p))
    ELSE IF p.fault = "read" THEN Outcome(sb, Throw(op, "read", 0, {}, p))
    ELSE
    LET issues == ConsistencyIssues(sb, p)
        \* the advisory analysis: its failure is logged and swallowed
        aiCalls == IF AdvisoryCall(issues, p.session) THEN 1 ELSE 0
        suggestions == IF aiCalls = 1 /\ ~p.aiFails THEN 1 ELSE 0
        fix == IF p.autoFix /\ Len(issues) > 0
               THEN autoFixIssues(issues, sb.chapters, p.fixMode)
               ELSE [chapters |-> sb.chapters, fixedIssues |-> <<>>]
        saves == Len(fix.fixedIssues) > 0
        fixedBible == IF saves
                      THEN [sb EXCEPT !.chapters = fix.chapters, !.updatedAt = p.now]
                      ELSE sb
        bibleWrite == IF saves THEN {"story-bible"} ELSE {}
        reportWrite == IF p.generateReport THEN {"report"} ELSE {}
        swallowed == IF aiCalls = 1 /\ p.aiFails THEN {"advisory-call"} ELSE {}
        finish(c) == [c EXCEPT !.issues = issues, !.fixedIssues = fix.fixedIssues,
                               !.suggestions = suggestions, !.failures = swallowed]
    IN  IF saves /\ p.fault = "writeBible"
        THEN Outcome(sb, AlsoFailed(Throw(op, "write-bible", aiCalls, {}, p), swallowed))
        ELSE IF p.generateReport /\ p.fault = "writeReport"
        THEN Outcome(fixedBible,
                     AlsoFailed(Throw(op, "write-report", aiCalls, bibleWrite, p),
                                swallowed))
        ELSE Outcome(fixedBible,
                     finish(Return(op, TRUE, "", aiCalls,
                                   bibleWrite \cup reportWrite, p)))

----------------------------------------------------------------------------
(* get-story-status and next-chapter: read-only *)

\* a read that leaves a mark in the document
MarkedOnRead(sb) == IF sb.exists THEN [sb EXCEPT !.stylePov = TRUE] ELSE sb

\* get-story-status and next-chapter open story-bible.json with fs.access and
\* fs.readFile only: the file holds after the call what it held before
ReadOnly(sb) == sb

\* collection.filter((c) => c.status === status).length
CountStatus(collection, status) ==
    Len(SelectSeq(collection, LAMBDA c : c.status = status))

\* the stats object; premise is 1 for a premise whose status is 'completed'
Stats(sb) ==
    [premise |-> IF sb.premise THEN (IF sb.premiseStatus = "completed" THEN 1 ELSE 0)
                 ELSE 0,
     chapters |-> [total |-> Len(sb.chapters),
                   draft |-> CountStatus(sb.chapters, "draft"),
                   inProgress |-> CountStatus(sb.chapters, "in-progress"),
                   completed |-> CountStatus(sb.chapters, "completed"),
                   needsRevision |-> CountStatus(sb.chapters, "needs-revision")],
     characters |-> [total |-> Len(sb.characters),
                     completed |-> CountStatus(sb.characters, "completed")],
     plotThreads |-> [total |-> Len(sb.plotThreads),
                      completed |-> CountStatus(sb.plotThreads, "completed")]]

weights == [premise |-> 10, chapters |-> 60, characters |-> 20, plotThreads |-> 10]

\* Math.round(num / den) for num >= 0, den > 0: the nearest integer, halves up
MathRound(num, den) == (2 * num + den) \div (2 * den)

\* completedWeight is kept as the fraction num / den, den the product of the
\* totals that are divided by
calculateOverallCompletion(stats) ==
    LET counted == {c \in {"chapters", "characters", "plotThreads"} : stats[c].total > 0}
        Total(c) == IF c \in counted THEN stats[c].total ELSE 1
        den == Total("chapters") * Total("characters") * Total("plotThreads")
        Part(c) == IF c \in counted
                   THEN stats[c].completed * weights[c] * (den \div stats[c].total)
                   ELSE 0
        Weight(c) == IF c \in counted THEN weights[c] ELSE 0
        totalWeight ==
            (IF stats.premise > 0 THEN weights.premise ELSE 0)
            + Weight("chapters") + Weight("characters") + Weight("plotThreads")
        num ==
            (IF stats.premise > 0 THEN weights.premise * den ELSE 0)
            + Part("chapters") + Part("characters") + Part("plotThreads")
    IN  IF totalWeight > 0 THEN MathRound(num * 100, den * totalWeight) ELSE 0

\* the first branch of the if/else-if chain of buildDetailedMessage that holds
NextSteps(stats) ==
    IF stats.premise = 0 THEN "parse-premise"
    ELSE IF stats.chapters.total = 0 THEN "generate-chapter"
    ELSE IF stats.characters.total = 0 THEN "create-character"
    ELSE IF stats.chapters.inProgress > 0 THEN "continue in-progress"
    ELSE IF stats.chapters.draft > 0 THEN "start draft"
    ELSE IF stats.chapters.needsRevision > 0 THEN "address revision"
    ELSE "check-consistency"

getStoryStatusDirect(sb, p) ==
    LET op == "get-story-status" IN
    IF BibleMissing(sb)
    THEN Outcome(sb, Return(op, FALSE, "Story bible not found", 0, {}, p))
    ELSE IF p.fault = "read" THEN Outcome(sb, Throw(op, "read", 0, {}, p))
    ELSE
    LET stats == Stats(sb)
        overall == calculateOverallCompletion(stats)
        \* only the detailed message has the next steps, and only when asked for
        nextSteps == IF p.format = "detailed" /\ p.includeNextSteps
                     THEN NextSteps(stats) ELSE "none"
    IN  Outcome(ReadOnly(sb), [Return(op, TRUE, "", 0, {}, p)
                                  EXCEPT !.overall = overall, !.nextSteps = nextSteps])

\* the filter of candidateChapters; an absent status or priority is "", an
\* absent characterFocus or plotThread is <<>>, a given one the number that
\* parseInt reads from it
PassesFilters(chapter, p) ==
    /\ (p.status # "" => chapter.status = p.status)
    /\ (p.priority # "" => chapter.priority = p.priority)
    /\ (Len(p.characterFocus) = 1 => Includes(chapter.characters, p.characterFocus[1]))
    /\ (Len(p.plotThread) = 1 => Includes(chapter.plotThreads, p.plotThread[1]))

\* priorityOrder[priority] || 2
PriorityOrder(priority) ==
    CASE priority = "high" -> 3 [] priority = "medium" -> 2 [] priority = "low" -> 1
      [] OTHER -> 2

\* a sort of the drafts by chapter number alone
DraftCompareByNumber(a, b) ==
    (IF a.chapterNumber # 0 THEN a.chapterNumber ELSE 999)
    - (IF b.chapterNumber # 0 THEN b.chapterNumber ELSE 999)

\* the comparator of draftChapters.sort: negative when a goes before b
DraftCompare(a, b) ==
    LET priorityDiff == PriorityOrder(b.priority) - PriorityOrder(a.priority)
    IN  IF priorityDiff # 0 THEN priorityDiff
        ELSE (IF a.chapterNumber # 0 THEN a.chapterNumber ELSE 999)
             - (IF b.chapterNumber # 0 THEN b.chapterNumber ELSE 999)

\* draftChapters.sort(...)[0]: the sort is stable, so the first element is the
\* earliest draft that no other draft goes before
FirstSorted(draftChapters) ==
    LET first == CHOOSE i \in DOMAIN draftChapters :
                    /\ \A j \in DOMAIN draftChapters :
                          DraftCompare(draftChapters[j], draftChapters[i]) >= 0
                    /\ \A j \in 1..(i - 1) :
                          DraftCompare(draftChapters[j], draftChapters[i]) > 0
    IN  draftChapters[first]

nextChapterDirect(sb, p) ==
    LET op == "next-chapter" IN
    IF BibleMissing(sb)
    THEN Outcome(sb, Return(op, FALSE, "Story bible not found", 0, {}, p))
    ELSE IF p.fault = "read" THEN Outcome(sb, Throw(op, "read", 0, {}, p))
    ELSE
    LET chapters == sb.chapters
        candidateChapters == SelectSeq(chapters, LAMBDA c : PassesFilters(c, p))
        inProgressChapters == SelectSeq(candidateChapters, LAMBDA c : c.status = "in-progress")
        revisionChapters == SelectSeq(candidateChapters, LAMBDA c : c.status = "needs-revision")
        draftChapters == SelectSeq(candidateChapters, LAMBDA c : c.status = "draft")
        nextChapter ==
            IF Len(inProgressChapters) > 0 THEN <<inProgressChapters[1]>>
            ELSE IF Len(revisionChapters) > 0 THEN <<revisionChapters[1]>>
            ELSE IF Len(draftChapters) > 0 THEN <<FirstSorted(draftChapters)>>
            ELSE <<>>
        maxChapterNumber == MaxOfSet({chapters[i].chapterNumber : i \in DOMAIN chapters})
        done == Return(op, TRUE, "", 0, {}, p)
    IN  IF Len(chapters) = 0
        THEN Outcome(ReadOnly(sb), [done EXCEPT !.chapterNumber = 1])
        ELSE IF Len(nextChapter) = 0
        THEN Outcome(ReadOnly(sb), [done EXCEPT !.chapterNumber = maxChapterNumber + 1])
        ELSE Outcome(ReadOnly(sb), [done EXCEPT !.nextChapter = nextChapter])

----------------------------------------------------------------------------
(* The operations as steps of the system *)

\* the collections of the document; an absent document has none
Characters == IF storyBible.exists THEN storyBible.characters ELSE <<>>
Chapters == IF storyBible.exists THEN storyBible.chapters ELSE <<>>
Scenes == IF storyBible.exists THEN storyBible.scenes ELSE <<>>
PlotThreads == IF storyBible.exists THEN storyBible.plotThreads ELSE <<>>

NoneAssigned == [characters |-> {}, chapters |-> {}, scenes |-> {}]

\* the ids found in the collections the factories fill
IdsIn(sb) ==
    IF sb.exists
    THEN [characters |-> {sb.characters[i].id : i \in DOMAIN sb.characters},
          chapters |-> {sb.chapters[i].id : i \in DOMAIN sb.chapters},
          scenes |-> {sb.scenes[i].id : i \in DOMAIN sb.scenes}]
    ELSE NoneAssigned

\* the history after an operation has saved the document sb
Remember(sb) ==
    [c \in DOMAIN assigned |-> assigned[c] \cup IdsIn(sb)[c]]

\* a successful parse-premise starts a new document and with it new collections
ParsePremise(p) ==
    LET outcome == parsePremiseDirect(storyBible, p)
    IN  /\ storyBible' = outcome.storyBible
        /\ result' = outcome.result
        /\ assigned' = IF outcome.result.success THEN NoneAssigned ELSE assigned
        /\ UNCHANGED inflight

\* maxCharacters, maxChapters and maxScenes keep the collections within the model
CreateCharacter(p, maxCharacters) ==
    LET outcome == createCharacterDirect(storyBible, p)
    IN  /\ Len(Characters) < maxCharacters
        /\ storyBible' = outcome.storyBible
        /\ result' = outcome.result
        /\ assigned' = Remember(outcome.storyBible)
        /\ UNCHANGED inflight

GenerateChapter(p, maxChapters, maxScenes) ==
    LET outcome == generateChapterDirect(storyBible, p)
    IN  /\ p.chapterId = 0 => Len(Chapters) < maxChapters
        /\ p.generateScenes => Len(Scenes) + SceneCount(p) <= maxScenes
        /\ storyBible' = outcome.storyBible
        /\ result' = outcome.result
        /\ assigned' = Remember(outcome.storyBible)
        /\ UNCHANGED inflight

CheckConsistency(p) ==
    LET outcome == checkConsistencyDirect(storyBible, p)
    IN  /\ storyBible' = outcome.storyBible
        /\ result' = outcome.result
        /\ assigned' = Remember(outcome.storyBible)
        /\ UNCHANGED inflight

GetStoryStatus(p) ==
    LET outcome == getStoryStatusDirect(storyBible, p)
    IN  /\ storyBible' = outcome.storyBible
        /\ result' = outcome.result
        /\ assigned' = Remember(outcome.storyBible)
        /\ UNCHANGED inflight

NextChapter(p) ==
    LET outcome == nextChapterDirect(storyBible, p)
    IN  /\ storyBible' = outcome.storyBible
        /\ result' = outcome.result
        /\ assigned' = Remember(outcome.storyBible)
        /\ UNCHANGED inflight

----------------------------------------------------------------------------
(* The author's hand edits of story-bible.json between operations.  No       *)
(* operation creates a plot thread, a style guide or a scene whose           *)
(* characters differ from its chapter's: the checker's rules exist for the   *)
(* documents the author has edited.  Edits keep ids unique.                  *)

EditRemovePremise ==
    /\ storyBible.exists /\ storyBible.premise
    /\ storyBible' = [storyBible EXCEPT !.premise = FALSE]
    /\ result' = NoResult("edit")
    /\ UNCHANGED assigned
    /\ UNCHANGED inflight

\* the author writes character x into scene i
EditSceneCharacters(i, x) ==
    /\ storyBible.exists
    /\ i \in DOMAIN storyBible.scenes
    /\ ~Includes(storyBible.scenes[i].characters, x)
    /\ storyBible' = [storyBible EXCEPT !.scenes[i].characters = Append(@, x)]
    /\ result' = NoResult("edit")
    /\ UNCHANGED assigned
    /\ UNCHANGED inflight

\* the author adds a plot thread: no operation creates one
EditAddPlotThread(title, maxPlotThreads) ==
    /\ storyBible.exists
    /\ Len(storyBible.plotThreads) < maxPlotThreads
    /\ storyBible' = [storyBible EXCEPT !.plotThreads =
            Append(@, [id |-> NextId(storyBible.plotThreads), title |-> title,
                       status |-> "draft", resolution |-> <<>>])]
    /\ result' = NoResult("edit")
    /\ UNCHANGED assigned
    /\ UNCHANGED inflight

\* the author marks plot thread i completed
EditPlotThreadStatus(i, status) ==
    /\ storyBible.exists
    /\ i \in DOMAIN storyBible.plotThreads
    /\ storyBible.plotThreads[i].status # status
    /\ storyBible' = [storyBible EXCEPT !.plotThreads[i].status = status]
    /\ result' = NoResult("edit")
    /\ UNCHANGED assigned
    /\ UNCHANGED inflight

\* the author writes the resolution of plot thread i
EditPlotThreadResolution(i, resolution) ==
    /\ storyBible.exists
    /\ i \in DOMAIN storyBible.plotThreads
    /\ storyBible.plotThreads[i].resolution # resolution
    /\ storyBible' = [storyBible EXCEPT !.plotThreads[i].resolution = resolution]
    /\ result' = NoResult("edit")
    /\ UNCHANGED assigned
    /\ UNCHANGED inflight

\* the author sets the status of the premise
EditPremiseStatus(status) ==
    /\ storyBible.exists /\ storyBible.premise
    /\ storyBible.premiseStatus # status
    /\ storyBible' = [storyBible EXCEPT !.premiseStatus = status]
    /\ result' = NoResult("edit")
    /\ UNCHANGED assigned
    /\ UNCHANGED inflight

\* the author sets the status of chapter i
EditChapterStatus(i, status) ==
    /\ storyBible.exists
    /\ i \in DOMAIN storyBible.chapters
    /\ storyBible.chapters[i].status # status
    /\ storyBible' = [storyBible EXCEPT !.chapters[i].status = status]
    /\ result' = NoResult("edit")
    /\ UNCHANGED assigned
    /\ UNCHANGED inflight

\* the author sets the status of character i
EditCharacterStatus(i, status) ==
    /\ storyBible.exists
    /\ i \in DOMAIN storyBible.characters
    /\ storyBible.characters[i].status # status
    /\ storyBible' = [storyBible EXCEPT !.characters[i].status = status]
    /\ result' = NoResult("edit")
    /\ UNCHANGED assigned
    /\ UNCHANGED inflight

\* the author writes the arc of character i
EditCharacterArc(i, arc) ==
    /\ storyBible.exists
    /\ i \in DOMAIN storyBible.characters
    /\ storyBible.characters[i].arc # arc
    /\ storyBible' = [storyBible EXCEPT !.characters[i].arc = arc]
    /\ result' = NoResult("edit")
    /\ UNCHANGED assigned
    /\ UNCHANGED inflight

\* the author deletes character i from the document; maxId keeps the ids
\* within the model
EditRemoveCharacter(i, maxId) ==
    /\ storyBible.exists
    /\ i \in DOMAIN storyBible.characters
    /\ NextId(storyBible.characters) <= maxId
    /\ storyBible' = [storyBible EXCEPT !.characters =
            SubSeq(@, 1, i - 1) \o SubSeq(@, i + 1, Len(@))]
    /\ result' = NoResult("edit")
    /\ UNCHANGED assigned
    /\ UNCHANGED inflight

\* the author deletes chapter i, and with it the chapter's scenes
EditRemoveChapter(i, maxId) ==
    /\ storyBible.exists
    /\ i \in DOMAIN storyBible.chapters
    /\ NextId(storyBible.chapters) <= maxId
    /\ storyBible' = [storyBible EXCEPT
            !.chapters = SubSeq(@, 1, i - 1) \o SubSeq(@, i + 1, Len(@)),
            !.scenes = SelectSeq(@, LAMBDA sc :
                            sc.chapterId # storyBible.chapters[i].id)]
    /\ result' = NoResult("edit")
    /\ UNCHANGED assigned
    /\ UNCHANGED inflight

----------------------------------------------------------------------------
(* create-character as two steps.  The handler is an async function: it     *)
(* reads story-bible.json, awaits the enrichment call and the file writes,  *)
(* and only then writes the document it read, with its character pushed.    *)
(* Another invocation can run between the read and the write.               *)

Invocations == {1, 2}

\* an invocation that is not running; the loaded and replaced documents of a
\* finished invocation are kept as history
Idle == [pc |-> "idle", storyBible |-> NoBible, params |-> <<>>, replaced |-> NoBible]

\* a save that would add the writer's element to what the file holds now
MergeOnSave(file, mine) ==
    IF file.exists /\ mine.exists /\ Len(mine.characters) > 0
    THEN [file EXCEPT !.characters =
            Append(@, [mine.characters[Len(mine.characters)]
                          EXCEPT !.id = NextId(file.characters)])]
    ELSE mine

\* fs.writeFile(storyBiblePath, JSON.stringify(storyBible)): the file becomes
\* the writer's document, whatever it held
Overwrite(file, mine) == mine

\* fs.access, fs.readFile and the premise check: a refusal returns at once,
\* otherwise the invocation holds the document it read
LoadCharacter(q, p, maxCharacters) ==
    LET outcome == createCharacterDirect(storyBible, p)
    IN  /\ inflight[q].pc # "loaded"
        /\ Len(Characters) < maxCharacters
        /\ IF BibleMissing(storyBible) \/ PremiseMissing(storyBible)
           THEN /\ result' = outcome.result
                /\ inflight' = [inflight EXCEPT ![q] = Idle]
           ELSE /\ UNCHANGED result
                /\ inflight' = [inflight EXCEPT ![q] =
                        [pc |-> "loaded", storyBible |-> storyBible,
                         params |-> <<p>>, replaced |-> NoBible]]
        /\ UNCHANGED <<storyBible, assigned>>

\* the rest of the handler, on the document the invocation read
SaveCharacter(q) ==
    /\ inflight[q].pc = "loaded"
    /\ LET outcome == createCharacterDirect(inflight[q].storyBible, inflight[q].params[1])
       IN  /\ storyBible' = IF outcome.result.success
                            THEN Overwrite(storyBible, outcome.storyBible)
                            ELSE storyBible
           /\ result' = outcome.result
           /\ assigned' = [c \in DOMAIN assigned |-> assigned[c] \cup IdsIn(storyBible')[c]]
           /\ inflight' = [inflight EXCEPT ![q] =
                   [@ EXCEPT !.pc = "saved", !.replaced = storyBible]]

Init ==
    /\ storyBible = NoBible
    /\ result = NoResult("none")
    /\ assigned = NoneAssigned
    /\ inflight = [q \in Invocations |-> Idle]

----------------------------------------------------------------------------
(* Spec: the six operations, each with every single failure of the outside *)

OpsMaxCharacters == 1
OpsMaxChapters == 1
OpsMaxScenes == 1

\* Every parameter set below is the default invocation of the operation and
\* the invocations that differ from it in one parameter or one failure.

DefaultPremise ==
    [premiseText |-> TRUE, generateOutline |-> TRUE, ai |-> "object",
     outlineAi |-> "ok", fault |-> "none", now |-> 0]

PremiseParams ==
    {DefaultPremise,
     [DefaultPremise EXCEPT !.premiseText = FALSE],
     [DefaultPremise EXCEPT !.generateOutline = FALSE],
     [DefaultPremise EXCEPT !.outlineAi = "reject"]}
    \cup {[DefaultPremise EXCEPT !.ai = a] : a \in {"unparseable", "invalid", "reject"}}
    \cup {[DefaultPremise EXCEPT !.fault = f] :
            f \in {"mkdir", "writePremise", "writeOutline", "writeBible"}}

DefaultCharacter ==
    [characterType |-> "supporting", priority |-> "medium", generate |-> TRUE,
     ai |-> "object", fault |-> "none", now |-> 0]

CharacterParams ==
    {DefaultCharacter, [DefaultCharacter EXCEPT !.generate = FALSE]}
    \cup {[DefaultCharacter EXCEPT !.ai = a] : a \in {"unparseable", "reject"}}
    \cup {[DefaultCharacter EXCEPT !.fault = f] :
            f \in {"read", "mkdir", "writeDoc", "writeBible"}}

DefaultChapter ==
    [chapterId |-> 0, chapterNumber |-> 0, characters |-> <<>>, plotThreads |-> <<>>,
     generateScenes |-> TRUE, sceneCount |-> <<1>>, priority |-> "medium", ai |-> "object",
     plotAdvancement |-> <<<<"a">>>>, fault |-> "none", now |-> 0]

ChapterParams ==
    {DefaultChapter, [DefaultChapter EXCEPT !.generateScenes = FALSE]}
    \cup {[DefaultChapter EXCEPT !.chapterId = k] : k \in 1..(OpsMaxChapters + 1)}
    \cup {[DefaultChapter EXCEPT !.ai = a] : a \in {"unparseable", "reject"}}
    \cup {[DefaultChapter EXCEPT !.fault = f] :
            f \in {"read", "mkdir", "writeDoc", "writeBible"}}

DefaultCheck ==
    [checkType |-> "all", characterId |-> 0, plotThreadId |-> 0, startChapter |-> 1,
     endChapter |-> 0, generateReport |-> TRUE, autoFix |-> FALSE,
     fixMode |-> "conservative", session |-> FALSE, aiFails |-> FALSE,
     fault |-> "none", now |-> 0]

AggressiveFix == [DefaultCheck EXCEPT !.autoFix = TRUE, !.fixMode = "aggressive"]

CheckParams ==
    {DefaultCheck, AggressiveFix,
     [DefaultCheck EXCEPT !.generateReport = FALSE],
     [DefaultCheck EXCEPT !.autoFix = TRUE],
     [DefaultCheck EXCEPT !.session = TRUE],
     [DefaultCheck EXCEPT !.session = TRUE, !.aiFails = TRUE],
     [DefaultCheck EXCEPT !.fault = "read"]}
    \cup {[AggressiveFix EXCEPT !.fault = f] : f \in {"writeBible", "writeReport"}}

DefaultNextChapter ==
    [status |-> "", priority |-> "", characterFocus |-> <<>>, plotThread |-> <<>>,
     fault |-> "none"]

ReadParams ==
    {DefaultNextChapter,
     [DefaultNextChapter EXCEPT !.fault = "read"],
     [DefaultNextChapter EXCEPT !.status = "draft"],
     [DefaultNextChapter EXCEPT !.priority = "high"],
     [DefaultNextChapter EXCEPT !.characterFocus = <<1>>],
     [DefaultNextChapter EXCEPT !.plotThread = <<1>>]}

DefaultStatus == [format |-> "detailed", includeNextSteps |-> TRUE, fault |-> "none"]

StatusParams ==
    {DefaultStatus,
     [DefaultStatus EXCEPT !.includeNextSteps = FALSE],
     [DefaultStatus EXCEPT !.fault = "read"]}
    \cup {[DefaultStatus EXCEPT !.format = f] : f \in {"summary", "table"}}

Next ==
    \/ \E p \in PremiseParams : ParsePremise(p)
    \/ \E p \in CharacterParams : CreateCharacter(p, OpsMaxCharacters)
    \/ \E p \in ChapterParams : GenerateChapter(p, OpsMaxChapters, OpsMaxScenes)
    \/ \E p \in CheckParams : CheckConsistency(p)
    \/ \E p \in StatusParams : GetStoryStatus(p)
    \/ \E p \in ReadParams : NextChapter(p)
    \/ EditRemovePremise
    \/ EditSceneCharacters(1, 1)

Spec == Init /\ [][Next]_vars

----------------------------------------------------------------------------
(* SpecFactory: the factories alone build the document, no hand edit *)

FactoryMaxCharacters == 2
FactoryMaxChapters == 2
FactoryMaxScenes == 2

\* "villain" and "urgent" are values outside the enumerations
FactoryCharacterParams ==
    {DefaultCharacter,
     [DefaultCharacter EXCEPT !.ai = "unparseable"],
     [DefaultCharacter EXCEPT !.characterType = "villain"],
     [DefaultCharacter EXCEPT !.priority = "urgent"],
     [DefaultCharacter EXCEPT !.fault = "writeBible"]}

FactoryChapterParams ==
    {DefaultChapter,
     [DefaultChapter EXCEPT !.generateScenes = FALSE],
     [DefaultChapter EXCEPT !.characters = <<1>>],
     [DefaultChapter EXCEPT !.priority = "urgent"],
     [DefaultChapter EXCEPT !.fault = "writeBible"]}
    \cup {[DefaultChapter EXCEPT !.chapterId = k] : k \in 1..FactoryMaxChapters}

NextFactory ==
    \/ ParsePremise(DefaultPremise)
    \/ \E p \in FactoryCharacterParams : CreateCharacter(p, FactoryMaxCharacters)
    \/ \E p \in FactoryChapterParams :
          GenerateChapter(p, FactoryMaxChapters, FactoryMaxScenes)

SpecFactory == Init /\ [][NextFactory]_vars

Ids(collection) == [i \in DOMAIN collection |-> collection[i].id]

\* C1: after any interleaving of create-character and generate-chapter runs on
\* collections that parse-premise left empty, the characters carry the ids
\* 1..Nc and the chapters the ids 1..Nch, in creation order, so that no two
\* elements of one collection share an id
C1_IdsAreOneToN ==
    /\ Ids(Characters) = [i \in 1..Len(Characters) |-> i]
    /\ Ids(Chapters) = [i \in 1..Len(Chapters) |-> i]
    /\ \A i, j \in DOMAIN Characters : Characters[i].id = Characters[j].id => i = j
    /\ \A i, j \in DOMAIN Chapters : Chapters[i].id = Chapters[j].id => i = j

\* two characters and two chapters exist and a creation has just succeeded
C1_Witness ==
    /\ Len(Characters) = 2
    /\ Len(Chapters) = 2
    /\ result.op \in {"create-character", "generate-chapter"}
    /\ result.success
    /\ result.id = 2

InEnums(element, typeField, types) ==
    /\ element.status \in STORY_STATUS_OPTIONS
    /\ element.priority \in PRIORITIES
    /\ typeField \in types

\* C8: every character, chapter and scene that create-character or
\* generate-chapter persists has its status, priority and characterType or
\* sceneType inside the enumerations, and a run given a value outside them
\* fails and persists nothing
C8_OnlyEnumValuesPersisted ==
    /\ \A i \in DOMAIN Characters :
          InEnums(Characters[i], Characters[i].characterType, CHARACTER_TYPES)
    /\ \A i \in DOMAIN Chapters : InEnums(Chapters[i], "chapter", {"chapter"})
    /\ \A i \in DOMAIN Scenes : InEnums(Scenes[i], Scenes[i].sceneType, SCENE_TYPES)
    /\ (/\ result.op \in {"create-character", "generate-chapter"}
        /\ \/ result.params.priority \notin PRIORITIES
           \/ /\ result.op = "create-character"
              /\ result.params.characterType \notin CHARACTER_TYPES)
       => ~result.success /\ result.writes = {}

\* the id after the largest id of a collection, 1 for an empty one
IdAfter(collection) ==
    IF collection = <<>> THEN 1
    ELSE CHOOSE n \in 1..(Len(collection) + 1) :
            /\ \A i \in DOMAIN collection : collection[i].id < n
            /\ \E i \in DOMAIN collection : collection[i].id = n - 1

\* C11: a create-character run whose enrichment reply cannot be parsed returns
\* success and appends the baseline character: the next id, status draft, the
\* caller's characterType and priority, no psychology, arc or traits
C11_UnparseableReplyGivesBaseline ==
    [][(/\ result'.op = "create-character"
        /\ result'.params.generate
        /\ result'.params.ai = "unparseable"
        /\ result'.params.fault = "none"
        /\ storyBible.exists
        /\ storyBible.premise)
       => /\ result'.success
          /\ result'.id = IdAfter(Characters)
          /\ storyBible' = [storyBible EXCEPT
                !.characters =
                    Append(@, [id |-> IdAfter(Characters),
                               characterType |-> result'.params.characterType,
                               status |-> "draft",
                               priority |-> result'.params.priority,
                               psychology |-> FALSE, traits |-> FALSE, arc |-> <<>>,
                               updatedAt |-> result'.params.now]),
                !.updatedAt = result'.params.now]]_vars

\* the second character has just been created from an unparseable reply
C11_Witness ==
    /\ result.op = "create-character"
    /\ result.params.ai = "unparseable"
    /\ result.success
    /\ "enrichment-parse" \in result.failures
    /\ Len(Characters) = 2
    /\ Characters[2].id = 2
    /\ ~Characters[2].psychology
    /\ Characters[1].psychology

----------------------------------------------------------------------------
(* SpecChecker: check-consistency over documents the author has edited *)

CheckerMaxCharacters == 2
CheckerMaxChapters == 2
CheckerMaxScenes == 2

\* an explicit chapter number 3 makes a gap after chapter 1 and a duplicate of
\* another chapter 3
CheckerChapterParams == {DefaultChapter, [DefaultChapter EXCEPT !.chapterNumber = 3]}

ConservativeFix == [DefaultCheck EXCEPT !.autoFix = TRUE]

CheckerCheckParams ==
    {DefaultCheck, ConservativeFix, AggressiveFix,
     [ConservativeFix EXCEPT !.checkType = "character"],
     [AggressiveFix EXCEPT !.checkType = "character"],
     [AggressiveFix EXCEPT !.checkType = "timeline"],
     [AggressiveFix EXCEPT !.characterId = 2],
     [AggressiveFix EXCEPT !.startChapter = 2],
     [AggressiveFix EXCEPT !.fault = "writeBible"]}

NextChecker ==
    \/ ParsePremise(DefaultPremise)
    \/ CreateCharacter(DefaultCharacter, CheckerMaxCharacters)
    \/ \E p \in CheckerChapterParams :
          GenerateChapter(p, CheckerMaxChapters, CheckerMaxScenes)
    \/ \E i \in 1..CheckerMaxScenes, x \in 1..CheckerMaxCharacters :
          EditSceneCharacters(i, x)
    \/ \E p \in CheckerCheckParams : CheckConsistency(p)

SpecChecker == Init /\ [][NextChecker]_vars

\* the character-unlisted issues of a list that name character x and chapter c
UnlistedOf(issues, x, c) ==
    {k \in DOMAIN issues : /\ issues[k].type = "character-unlisted"
                           /\ issues[k].characterId = x
                           /\ issues[k].chapterId = c}

\* scenes of chapter c that carry character x
ScenesWith(sb, x, c) ==
    {k \in DOMAIN sb.scenes : /\ sb.scenes[k].chapterId = c
                              /\ Includes(sb.scenes[k].characters, x)}

\* a run of check-consistency has just returned with success
Checked == result'.op = "check-consistency" /\ result'.success

\* the character check of the run looks at character x
ChecksCharacter(p, x) ==
    /\ p.checkType \in {"character", "all"}
    /\ p.characterId \in {0, x}

\* C2: when character X sits in exactly one scene of an in-scope chapter C that
\* does not list X, the character check emits exactly one character-unlisted
\* issue for X and C; a run with autoFix in aggressive mode leaves X in
\* C.characters of the persisted document, and the same check afterwards
\* emits no character-unlisted issue
C2_UnlistedDetectedAndFixed ==
    [][Checked =>
        \A i \in DOMAIN Characters, j \in DOMAIN Chapters :
            LET p == result'.params
                X == Characters[i].id
                C == Chapters[j]
                inScope == TargetChapters(<<C>>, p.startChapter, p.endChapter) # <<>>
            IN  (/\ ChecksCharacter(p, X)
                 /\ inScope
                 /\ ~Includes(C.characters, X)
                 /\ Cardinality(ScenesWith(storyBible, X, C.id)) = 1)
                =>
                /\ Cardinality(UnlistedOf(result'.issues, X, C.id)) = 1
                /\ (p.autoFix /\ p.fixMode = "aggressive")
                   => /\ Includes(storyBible'.chapters[j].characters, X)
                      /\ \A k \in DOMAIN ConsistencyIssues(storyBible', p) :
                            ConsistencyIssues(storyBible', p)[k].type
                                # "character-unlisted"]_vars

\* an aggressive run has just fixed an unlisted character and saved the document
C2_Witness ==
    /\ result.op = "check-consistency"
    /\ result.success
    /\ result.params.autoFix
    /\ result.params.fixMode = "aggressive"
    /\ \E k \in DOMAIN result.fixedIssues :
          /\ result.fixedIssues[k].type = "character-unlisted"
          /\ \E j \in DOMAIN Chapters :
                /\ Chapters[j].id = result.fixedIssues[k].chapterId
                /\ Includes(Chapters[j].characters, result.fixedIssues[k].characterId)
    /\ "story-bible" \in result.writes

\* C3: a run with autoFix in conservative mode fixes nothing: fixedIssues is
\* empty and the persisted document is the one it read
C3_ConservativeFixesNothing ==
    [][(/\ result'.op = "check-consistency"
        /\ result'.params.autoFix
        /\ result'.params.fixMode = "conservative")
       => /\ storyBible' = storyBible
          /\ result'.fixedIssues = <<>>
          /\ "story-bible" \notin result'.writes]_vars

\* a conservative run met a minor issue and a character-unlisted issue
C3_Witness ==
    /\ result.op = "check-consistency"
    /\ result.success
    /\ result.params.autoFix
    /\ result.params.fixMode = "conservative"
    /\ \E k \in DOMAIN result.issues : result.issues[k].severity = "minor"
    /\ \E k \in DOMAIN result.issues :
          /\ result.issues[k].type = "character-unlisted"
          /\ result.issues[k].severity = "moderate"
    /\ result.fixedIssues = <<>>

IsPrefix(s, t) == Len(s) <= Len(t) /\ SubSeq(t, 1, Len(s)) = s

\* C4: in any fix mode a run of check-consistency changes the document only by
\* appending, to chapters named by character-unlisted issues of the run, the
\* missing character ids of those issues; every other field stays as it was
\* and fixedIssues holds character-unlisted issues only
C4_FixOnlyAppendsUnlisted ==
    [][result'.op = "check-consistency" =>
        LET issues == ConsistencyIssues(storyBible, result'.params)
        IN  IF ~storyBible.exists THEN storyBible' = storyBible
            ELSE
            /\ storyBible'.exists
            /\ Len(storyBible'.chapters) = Len(storyBible.chapters)
            /\ \A j \in DOMAIN storyBible.chapters :
                  LET old == storyBible.chapters[j]
                      new == storyBible'.chapters[j]
                  IN  /\ new = [old EXCEPT !.characters = new.characters]
                      /\ IsPrefix(old.characters, new.characters)
                      /\ \A k \in (Len(old.characters) + 1)..Len(new.characters) :
                            /\ ~Includes(old.characters, new.characters[k])
                            /\ UnlistedOf(issues, new.characters[k], old.id) # {}
            /\ storyBible' = [storyBible EXCEPT
                  !.chapters = storyBible'.chapters,
                  !.updatedAt = storyBible'.updatedAt]
            /\ \A k \in DOMAIN result'.fixedIssues :
                  result'.fixedIssues[k].type = "character-unlisted"]_vars

\* an aggressive run fixed an unlisted character while a duplicate chapter
\* number stayed in the document
C4_Witness ==
    /\ result.op = "check-consistency"
    /\ result.success
    /\ result.params.autoFix
    /\ Len(result.fixedIssues) > 0
    /\ \E k \in DOMAIN result.issues : result.issues[k].type = "duplicate-chapter-number"
    /\ \E i, j \in DOMAIN Chapters :
          i # j /\ Chapters[i].chapterNumber = Chapters[j].chapterNumber

----------------------------------------------------------------------------
(* SpecTimeline: chapters with chosen numbers, and the timeline check *)

TimelineMaxChapters == 4

SceneLess == [DefaultChapter EXCEPT !.generateScenes = FALSE]

\* chapterNumber 0 is the absent parameter: the next free number is taken
TimelineChapterParams == {[SceneLess EXCEPT !.chapterNumber = n] : n \in {0, 1, 2, 4}}

TimelineCheck == [DefaultCheck EXCEPT !.checkType = "timeline"]

TimelineCheckParams ==
    {TimelineCheck, DefaultCheck,
     [TimelineCheck EXCEPT !.startChapter = 2],
     [TimelineCheck EXCEPT !.endChapter = 2]}

NextTimeline ==
    \/ ParsePremise(DefaultPremise)
    \/ \E p \in TimelineChapterParams : GenerateChapter(p, TimelineMaxChapters, 0)
    \/ \E p \in TimelineCheckParams : CheckConsistency(p)

SpecTimeline == Init /\ [][NextTimeline]_vars

\* the chapter numbers of the chapters a run with parameters p looks at
InScopeNumbers(sb, p) ==
    LET inScope == TargetChapters(sb.chapters, p.startChapter, p.endChapter)
    IN  [k \in DOMAIN inScope |-> inScope[k].chapterNumber]

Occurrences(numbers, n) == Cardinality({i \in DOMAIN numbers : numbers[i] = n})

\* the pairs of neighbours, among the distinct numbers in ascending order, that
\* are more than 1 apart
AdjacentGaps(numbers) ==
    LET distinct == Range(numbers)
    IN  {pair \in distinct \X distinct :
            /\ pair[2] - pair[1] > 1
            /\ ~\E n \in distinct : pair[1] < n /\ n < pair[2]}

IssuesOfType(issues, type) == {k \in DOMAIN issues : issues[k].type = type}

\* C5: the timeline check emits one minor chapter-sequence-gap issue for each
\* pair of neighbouring distinct chapter numbers more than 1 apart, and k-1
\* critical duplicate-chapter-number issues for each number carried by k
\* in-scope chapters
C5_GapsAndDuplicatesCounted ==
    [][(/\ result'.op = "check-consistency"
        /\ result'.success
        /\ result'.params.checkType \in {"timeline", "all"})
       => LET issues == result'.issues
              numbers == InScopeNumbers(storyBible, result'.params)
              gaps == IssuesOfType(issues, "chapter-sequence-gap")
              duplicates == IssuesOfType(issues, "duplicate-chapter-number")
          IN  /\ Cardinality(gaps) = Cardinality(AdjacentGaps(numbers))
              /\ \A pair \in AdjacentGaps(numbers) :
                    Cardinality({k \in gaps : /\ issues[k].a = pair[1]
                                              /\ issues[k].b = pair[2]}) = 1
              /\ \A k \in gaps : issues[k].severity = "minor"
              /\ \A n \in Range(numbers) :
                    Cardinality({k \in duplicates : issues[k].a = n})
                        = Occurrences(numbers, n) - 1
              /\ \A k \in duplicates :
                    /\ issues[k].a \in Range(numbers)
                    /\ issues[k].severity = "critical"]_vars

\* the chapters are numbered 1, 2, 2, 4 in some order and the check has
\* reported one duplicate of 2 and one gap between 2 and 4
C5_Witness ==
    LET numbers == [k \in DOMAIN Chapters |-> Chapters[k].chapterNumber]
        issues == result.issues
    IN  /\ result.op = "check-consistency"
        /\ result.success
        /\ result.params = TimelineCheck
        /\ Len(numbers) = 4
        /\ Occurrences(numbers, 1) = 1
        /\ Occurrences(numbers, 2) = 2
        /\ Occurrences(numbers, 4) = 1
        /\ Len(issues) = 2
        /\ \E k \in DOMAIN issues :
              /\ issues[k].type = "chapter-sequence-gap"
              /\ issues[k].a = 2 /\ issues[k].b = 4
        /\ \E k \in DOMAIN issues :
              /\ issues[k].type = "duplicate-chapter-number"
              /\ issues[k].a = 2

----------------------------------------------------------------------------
(* SpecPlot: plot threads the author keeps, and the plot check *)

PlotMaxChapters == 2
PlotMaxPlotThreads == 2

\* the first thread is titled "Ab", every later one "c"
PlotTitle(sb) == IF Len(sb.plotThreads) = 0 THEN <<"A", "b">> ELSE <<"c">>

\* plotAdvancement "xaB" holds the title "Ab" in another case, "ba" does not
\* hold it, and an unparseable reply leaves the chapter without the field
PlotChapterParams ==
    {[SceneLess EXCEPT !.plotAdvancement = <<<<"x", "a", "B">>>>],
     [SceneLess EXCEPT !.plotAdvancement = <<<<"b", "a">>>>, !.plotThreads = <<1>>],
     [SceneLess EXCEPT !.ai = "unparseable"]}

PlotCheck == [DefaultCheck EXCEPT !.checkType = "plot"]

PlotCheckParams ==
    {PlotCheck, DefaultCheck,
     [PlotCheck EXCEPT !.plotThreadId = 1],
     [PlotCheck EXCEPT !.startChapter = 2]}

\* absent, the empty string, and "r"
Resolutions == {<<>>, <<<<>>>>, <<<<"r">>>>}

NextPlot ==
    \/ ParsePremise(DefaultPremise)
    \/ \E p \in PlotChapterParams : GenerateChapter(p, PlotMaxChapters, 0)
    \/ EditAddPlotThread(PlotTitle(storyBible), PlotMaxPlotThreads)
    \/ \E i \in 1..PlotMaxPlotThreads : EditPlotThreadStatus(i, "completed")
    \/ \E i \in 1..PlotMaxPlotThreads, r \in Resolutions :
          EditPlotThreadResolution(i, r)
    \/ \E p \in PlotCheckParams : CheckConsistency(p)

SpecPlot == Init /\ [][NextPlot]_vars

\* the issues of one type that name plot thread t
PlotIssuesOf(issues, type, t) ==
    {k \in DOMAIN issues : issues[k].type = type /\ issues[k].plotThreadId = t}

\* a run of check-consistency that has put plot thread t through the plot check
PlotChecked(t) ==
    /\ Checked
    /\ result'.params.checkType \in {"plot", "all"}
    /\ result'.params.plotThreadId \in {0, t.id}

Unresolved(t) == t.status = "completed" /\ (t.resolution = <<>> \/ t.resolution = <<<<>>>>)

\* C6: the plot check emits one moderate plot-thread-unresolved issue for a
\* plot thread exactly when the thread is completed and has no resolution or
\* the empty one; once a non-empty resolution is written into such a thread
\* the check emits the issue no more
C6_UnresolvedExactlyWhenCompletedWithoutResolution ==
    [][/\ \A i \in DOMAIN PlotThreads :
            LET t == PlotThreads[i]
                found == PlotIssuesOf(result'.issues, "plot-thread-unresolved", t.id)
            IN  PlotChecked(t) =>
                  /\ Cardinality(found) = (IF Unresolved(t) THEN 1 ELSE 0)
                  /\ \A k \in found : result'.issues[k].severity = "moderate"
       /\ \A i \in DOMAIN PlotThreads :
            (/\ result'.op = "edit"
             /\ Unresolved(PlotThreads[i])
             /\ storyBible'.plotThreads[i].resolution \notin {<<>>, <<<<>>>>})
            => PlotIssuesOf(ConsistencyIssues(storyBible', PlotCheck),
                            "plot-thread-unresolved", PlotThreads[i].id) = {}]_vars

\* the check has reported completed thread 2, which has the empty resolution,
\* and has not reported completed thread 1, which has a resolution
C6_Witness ==
    /\ result.op = "check-consistency"
    /\ result.params = PlotCheck
    /\ Len(PlotThreads) = 2
    /\ PlotThreads[1].status = "completed"
    /\ PlotThreads[1].resolution = <<<<"r">>>>
    /\ PlotThreads[2].status = "completed"
    /\ PlotThreads[2].resolution = <<<<>>>>
    /\ PlotIssuesOf(result.issues, "plot-thread-unresolved", 1) = {}
    /\ Cardinality(PlotIssuesOf(result.issues, "plot-thread-unresolved", 2)) = 1

CasePairs == {{"a", "A"}, {"b", "B"}}

SameLetter(x, y) == x = y \/ {x, y} \in CasePairs

\* title occurs in text, letter case aside
OccursIgnoringCase(text, title) ==
    \E k \in 0..(Len(text) - Len(title)) :
        \A i \in 1..Len(title) : SameLetter(text[k + i], title[i])

\* chapter c names plot thread t
Names(c, t) ==
    \/ \E k \in DOMAIN c.plotThreads : c.plotThreads[k] = t.id
    \/ c.plotAdvancement # <<>> /\ OccursIgnoringCase(c.plotAdvancement[1], t.title)

\* C7: the plot check emits a minor plot-thread-unused issue for a plot thread
\* exactly when the thread is not completed and no chapter numbered within
\* [startChapter, endChapter] names it, by id in plotThreads or by its title,
\* letter case aside, inside plotAdvancement; no thread gets both
\* plot-thread-unused and plot-thread-unresolved in one run
C7_UnusedExactlyWhenUnreferenced ==
    [][\A i \in DOMAIN PlotThreads :
          LET t == PlotThreads[i]
              p == result'.params
              unused == PlotIssuesOf(result'.issues, "plot-thread-unused", t.id)
              unresolved == PlotIssuesOf(result'.issues, "plot-thread-unresolved", t.id)
              named == \E j \in DOMAIN Chapters :
                          /\ Chapters[j].chapterNumber >= p.startChapter
                          /\ p.endChapter # 0 => Chapters[j].chapterNumber <= p.endChapter
                          /\ Names(Chapters[j], t)
          IN  PlotChecked(t) =>
                /\ (unused # {}) <=> (t.status # "completed" /\ ~named)
                /\ Cardinality(unused) <= 1
                /\ \A k \in unused : result'.issues[k].severity = "minor"
                /\ ~(unused # {} /\ unresolved # {})]_vars

\* thread 1, "Ab", is named only by the text "xaB" of a chapter and is not
\* reported; thread 2, "c", is named by no chapter and is reported
C7_Witness ==
    /\ result.op = "check-consistency"
    /\ result.params = PlotCheck
    /\ Len(PlotThreads) = 2
    /\ PlotThreads[1].status # "completed"
    /\ PlotThreads[2].status # "completed"
    /\ \E j \in DOMAIN Chapters : Chapters[j].plotAdvancement = <<<<"x", "a", "B">>>>
    /\ \A j \in DOMAIN Chapters : Chapters[j].plotThreads = <<>>
    /\ PlotIssuesOf(result.issues, "plot-thread-unused", 1) = {}
    /\ Cardinality(PlotIssuesOf(result.issues, "plot-thread-unused", 2)) = 1

----------------------------------------------------------------------------
(* Claims checked under Spec *)

RequiresBible ==
    {"create-character", "generate-chapter", "check-consistency", "get-story-status",
     "next-chapter"}

\* the step just taken is operation op, which found the document readable
Ran(op) == result'.op = op /\ storyBible.exists /\ result'.params.fault = "none"

NoSuchChapter(chapterId) ==
    chapterId # 0 /\ \A i \in DOMAIN storyBible.chapters : storyBible.chapters[i].id # chapterId

\* success=false with the given advisory, no service call, no file written and
\* the document as it was
Refused(error) ==
    /\ result'.kind = "return" /\ ~result'.success /\ result'.error = error
    /\ result'.aiCalls = 0 /\ result'.writes = {}
    /\ storyBible' = storyBible

\* C9: an operation that finds its required artifact missing (no story bible,
\* for every operation but parse-premise; no premise, for create-character; no
\* chapter with the given chapterId, for generate-chapter) returns success=false
\* with its advisory, calls no generation service, writes no file and leaves
\* the persisted state unchanged.
C9_MissingArtifactRefused ==
    [][/\ (result'.op \in RequiresBible /\ ~storyBible.exists)
            => Refused("Story bible not found")
       /\ (Ran("create-character") /\ ~storyBible.premise)
            => Refused("Premise not found")
       /\ (Ran("generate-chapter") /\ NoSuchChapter(result'.params.chapterId))
            => Refused("Chapter not found")]_vars

C9_Witness ==
    /\ result.op = "create-character" /\ result.error = "Premise not found"
    /\ storyBible.exists /\ ~storyBible.premise /\ result.params.generate

\* the failures an operation handles itself and survives
Swallowed == {"enrichment-parse", "advisory-call"}

\* C10 as stated: every operation returns a result object, and whenever a
\* generation-service call, a file read or write or JSON parsing failed inside
\* it the result is success=false.
C10_EveryFailureFails ==
    result.kind = "return" /\ (result.failures # {} => ~result.success)

\* C10 as amended: every operation returns a result object and no error reaches
\* the caller; a failure other than the two handled locally (an enrichment
\* response that does not parse, the advisory analysis call of
\* check-consistency) gives success=false with an error text.
C10_ResultAlwaysReturned ==
    /\ result.kind = "return"
    /\ ~(result.failures \subseteq Swallowed) => (~result.success /\ result.error # "")

C10_Witness ==
    /\ result.op = "check-consistency" /\ result.failures = {"write-report"}
    /\ ~result.success /\ "story-bible" \in result.writes

\* C12: when the enrichment call of create-character or generate-chapter
\* itself rejects, the run still returns success and saves the baseline
\* element; a rejected analysis call of parse-premise fails the run
C12_RejectedEnrichmentCallDegrades ==
    /\ (/\ result.op \in {"create-character", "generate-chapter"}
        /\ "ai-call" \in result.failures)
       => /\ result.success
          /\ "story-bible" \in result.writes
    /\ (result.op = "parse-premise" /\ "ai-call" \in result.failures)
       => ~result.success

AnalysisFailures == {"ai-call", "analysis-parse", "analysis-schema"}

\* C13: a parse-premise run whose analysis call rejects, whose analysis reply
\* does not parse or does not validate, or whose outline call rejects, returns
\* failure and leaves story-bible.json as it was, absent or not; the run
\* writes story-bible.json exactly when it succeeds
C13_FailedPremiseLeavesBible ==
    [][result'.op = "parse-premise" =>
        /\ (result'.failures \cap AnalysisFailures # {})
           => /\ ~result'.success
              /\ storyBible' = storyBible
              /\ "story-bible" \notin result'.writes
        /\ result'.success <=> "story-bible" \in result'.writes
        /\ ~result'.success => storyBible' = storyBible]_vars

\* the outline call of a second parse-premise has just been rejected, after the
\* premise document was written, and the story bible still holds its character
C13_Witness ==
    /\ result.op = "parse-premise"
    /\ ~result.success
    /\ "ai-call" \in result.failures
    /\ result.aiCalls = 2
    /\ result.writes = {"premise"}
    /\ Len(Characters) = 1

\* the scenes a step has added to the end of the scenes collection
AddedScenes == SubSeq(storyBible'.scenes, Len(storyBible.scenes) + 1,
                      Len(storyBible'.scenes))

IdsKept(before, after) ==
    \A i \in DOMAIN before : \E j \in DOMAIN after : after[j].id = before[i].id

\* C15: no operation removes an element from a collection of the saved story
\* bible: every character, chapter, scene and plot thread present before a
\* step is present, with its id, after it
C15_ElementsNeverRemoved ==
    [][storyBible.exists =>
        /\ storyBible'.exists
        /\ IdsKept(storyBible.characters, storyBible'.characters)
        /\ IdsKept(storyBible.chapters, storyBible'.chapters)
        /\ IdsKept(storyBible.scenes, storyBible'.scenes)
        /\ IdsKept(storyBible.plotThreads, storyBible'.plotThreads)]_vars

----------------------------------------------------------------------------
(* SpecIds: the factories, and an author who deletes elements in between *)

IdsMaxCharacters == 2
IdsMaxChapters == 2
IdsMaxScenes == 2
IdsMaxId == 3

NextIds ==
    \/ ParsePremise(DefaultPremise)
    \/ CreateCharacter(DefaultCharacter, IdsMaxCharacters)
    \/ \E p \in {DefaultChapter, SceneLess} :
          GenerateChapter(p, IdsMaxChapters, IdsMaxScenes)
    \/ \E i \in 1..IdsMaxCharacters : EditRemoveCharacter(i, IdsMaxId)
    \/ \E i \in 1..IdsMaxChapters : EditRemoveChapter(i, IdsMaxId)

SpecIds == Init /\ [][NextIds]_vars

\* C16: an id given to an element of a collection is never given to a later
\* element of that collection, also when elements were deleted in between
C16_IdsNeverReused ==
    [][/\ (result'.op = "create-character" /\ result'.success)
          => result'.id \notin assigned.characters
       /\ (/\ result'.op = "generate-chapter"
           /\ result'.success
           /\ result'.params.chapterId = 0)
          => /\ result'.id \notin assigned.chapters
             /\ \A k \in DOMAIN AddedScenes :
                   AddedScenes[k].id \notin assigned.scenes]_vars

----------------------------------------------------------------------------
(* SpecClock: the operations under a clock that advances with every save *)

ClockMaxCharacters == 1
ClockMaxChapters == 2
ClockMaxScenes == 2
ClockMax == 5

\* new Date(): later than every time stamp the document holds
Now == IF storyBible.exists THEN storyBible.updatedAt + 1 ELSE 1

\* the invocations of a set, made now; none once the clock has run out
Timed(params) == {[p EXCEPT !.now = t] : p \in params, t \in {Now} \cap 1..ClockMax}

ClockChapterParams ==
    {DefaultChapter} \cup {[DefaultChapter EXCEPT !.chapterId = k] : k \in 1..ClockMaxChapters}

NextClock ==
    \/ \E p \in Timed({DefaultPremise}) : ParsePremise(p)
    \/ \E p \in Timed({DefaultCharacter}) : CreateCharacter(p, ClockMaxCharacters)
    \/ \E p \in Timed(ClockChapterParams) :
          GenerateChapter(p, ClockMaxChapters, ClockMaxScenes)
    \/ \E i \in 1..ClockMaxScenes, x \in 1..ClockMaxCharacters :
          EditSceneCharacters(i, x)
    \/ \E p \in Timed({AggressiveFix}) : CheckConsistency(p)

SpecClock == Init /\ [][NextClock]_vars

\* C17: when generate-chapter updates an existing chapter, or the auto-fix
\* appends a character id to a chapter, the chapter's updatedAt becomes the
\* time of that operation
C17_MutationSetsUpdatedAt ==
    [][result'.op \in {"generate-chapter", "check-consistency"} =>
        \A j \in DOMAIN Chapters :
            (/\ j \in DOMAIN storyBible'.chapters
             /\ storyBible'.chapters[j].id = Chapters[j].id
             /\ storyBible'.chapters[j] # Chapters[j])
            => storyBible'.chapters[j].updatedAt = result'.params.now]_vars

----------------------------------------------------------------------------
(* SpecOverlap: two create-character invocations that may overlap *)

OverlapMaxCharacters == 2

OverlapCharacterParams ==
    {[DefaultCharacter EXCEPT !.characterType = t] : t \in {"protagonist", "antagonist"}}

NextOverlap ==
    \/ ParsePremise(DefaultPremise)
    \/ \E q \in Invocations, p \in OverlapCharacterParams :
            LoadCharacter(q, p, OverlapMaxCharacters)
    \/ \E q \in Invocations : SaveCharacter(q)

SpecOverlap == Init /\ [][NextOverlap]_vars

\* invocation q completes in this step
Saves(q) == inflight[q].pc = "loaded" /\ inflight'[q].pc = "saved"

\* the character a successful create-character with these parameters adds to sb
Created(sb, p) == createCharacterDirect(sb, p).storyBible.characters[Len(sb.characters) + 1]

\* the file has changed since q read the document
Overlapped(q) == storyBible # inflight[q].storyBible

\* other create-character invocations have saved since q read the document:
\* the file holds the characters q read and more
OverlappedByFactory(q) ==
    /\ Len(storyBible.characters) > Len(inflight[q].storyBible.characters)
    /\ SubSeq(storyBible.characters, 1, Len(inflight[q].storyBible.characters))
            = inflight[q].storyBible.characters

\* C18: a create-character invocation saves the document it loaded with its
\* own character appended under the next id of that document, whatever the
\* file holds by then.  When another invocation saved in between (both had
\* loaded before either saved), the earlier writer's character is gone from
\* the file and the later writer's character carries the id the earlier one
\* had; when nothing was saved in between, the file keeps every character it
\* had and the new one has an id none of them has.
C18_LastWriteWins ==
    [][\A q \in Invocations : Saves(q) =>
        LET mine == inflight[q].storyBible
            new == Created(mine, inflight[q].params[1])
        IN  /\ result'.success /\ result'.id = NextId(mine.characters)
            /\ new.id = NextId(mine.characters)
            /\ storyBible'.characters = Append(mine.characters, new)
            /\ OverlappedByFactory(q) =>
                  /\ Len(storyBible'.characters) <= Len(storyBible.characters)
                  /\ \E i \in DOMAIN storyBible.characters :
                        /\ i > Len(mine.characters)
                        /\ storyBible.characters[i].id = new.id
            /\ ~Overlapped(q) =>
                  /\ SubSeq(storyBible'.characters, 1, Len(storyBible.characters))
                        = storyBible.characters
                  /\ \A i \in DOMAIN storyBible.characters :
                        storyBible.characters[i].id # new.id]_vars

\* both invocations loaded the same document; one saved a protagonist under
\* id 1, the other then saved an antagonist: the file holds the antagonist
\* alone, under id 1
C18_Witness ==
    /\ \A q \in Invocations : inflight[q].pc = "saved"
    /\ inflight[1].storyBible = inflight[2].storyBible
    /\ inflight[1].replaced = inflight[1].storyBible
    /\ inflight[2].replaced # inflight[2].storyBible
    /\ Len(inflight[2].replaced.characters) = 1
    /\ inflight[2].replaced.characters[1].characterType = "protagonist"
    /\ inflight[2].replaced.characters[1].id = 1
    /\ Len(storyBible.characters) = 1
    /\ storyBible.characters[1].characterType = "antagonist"
    /\ storyBible.characters[1].id = 1

----------------------------------------------------------------------------
(* SpecStatus: get-story-status on documents with elements in any status *)

StatusMaxChapters == 4
StatusMaxCharacters == 1
StatusMaxPlotThreads == 1

\* the statuses the statistics tell apart
ChapterStatuses == {"draft", "in-progress", "needs-revision", "completed"}

NextStatus ==
    \/ ParsePremise(DefaultPremise)
    \/ CreateCharacter(DefaultCharacter, StatusMaxCharacters)
    \/ GenerateChapter([DefaultChapter EXCEPT !.generateScenes = FALSE],
                       StatusMaxChapters, 0)
    \/ EditAddPlotThread(PlotTitle(storyBible), StatusMaxPlotThreads)
    \/ EditRemovePremise
    \/ \E status \in {"draft", "completed"} : EditPremiseStatus(status)
    \/ \E i \in 1..StatusMaxChapters, status \in ChapterStatuses :
            EditChapterStatus(i, status)
    \/ \E i \in 1..StatusMaxCharacters, status \in {"draft", "completed"} :
            EditCharacterStatus(i, status)
    \/ \E i \in 1..StatusMaxPlotThreads, status \in {"draft", "completed"} :
            EditPlotThreadStatus(i, status)
    \/ \E p \in StatusParams : GetStoryStatus(p)

SpecStatus == Init /\ [][NextStatus]_vars

\* get-story-status has just reported on the document
Reported == result.op = "get-story-status" /\ result.success

\* the number of completed elements of a collection
Completed(collection) ==
    Cardinality({i \in DOMAIN collection : collection[i].status = "completed"})

\* the premise as a category of one element
PremiseTotal == IF storyBible.premise THEN 1 ELSE 0
PremiseCompleted ==
    IF storyBible.premise /\ storyBible.premiseStatus = "completed" THEN 1 ELSE 0

\* sum(w_c) over the categories with an element
WeightSum ==
    (IF PremiseTotal > 0 THEN 10 ELSE 0) + (IF Len(Chapters) > 0 THEN 60 ELSE 0)
    + (IF Len(Characters) > 0 THEN 20 ELSE 0) + (IF Len(PlotThreads) > 0 THEN 10 ELSE 0)

\* the product of the totals of the categories with an element
TotalsProduct ==
    (IF Len(Chapters) > 0 THEN Len(Chapters) ELSE 1)
    * (IF Len(Characters) > 0 THEN Len(Characters) ELSE 1)
    * (IF Len(PlotThreads) > 0 THEN Len(PlotThreads) ELSE 1)

\* sum(w_c * completed_c / total_c) over the same categories, times TotalsProduct
CompletedSum ==
    10 * PremiseCompleted * TotalsProduct
    + (IF Len(Chapters) > 0
       THEN (60 * Completed(Chapters) * TotalsProduct) \div Len(Chapters) ELSE 0)
    + (IF Len(Characters) > 0
       THEN (20 * Completed(Characters) * TotalsProduct) \div Len(Characters) ELSE 0)
    + (IF Len(PlotThreads) > 0
       THEN (10 * Completed(PlotThreads) * TotalsProduct) \div Len(PlotThreads) ELSE 0)

\* n = round(num / den): the integer nearest to num / den, the upper one of two
IsRound(n, num, den) == 2 * num - den < 2 * n * den /\ 2 * n * den <= 2 * num + den

\* C19: the overall completion get-story-status reports is
\* round(100 * sum(w_c * completed_c / total_c) / sum(w_c)) over the categories
\* among premise (10), chapters (60), characters (20) and plot threads (10)
\* that have an element, 0 when none has one, and lies in 0..100.
C19_WeightedCompletion ==
    Reported =>
        /\ result.overall \in 0..100
        /\ IF WeightSum = 0 THEN result.overall = 0
           ELSE IsRound(result.overall, 100 * CompletedSum, WeightSum * TotalsProduct)

\* a chapter of the document has this status
AnyChapter(status) == \E i \in DOMAIN Chapters : Chapters[i].status = status

\* the report has the recommended next steps
Recommends == Reported /\ result.params.format = "detailed" /\ result.params.includeNextSteps

\* C20: the next action get-story-status recommends is the first rung that
\* matches: no premise, create the premise; else no chapters, generate a
\* chapter; else no characters, create a character; else a chapter in
\* progress, continue it; else a draft chapter, start it; else a chapter
\* needing revision, revise it; otherwise run the consistency check.
C20_FirstMatchingRung ==
    Recommends =>
        result.nextSteps =
            IF ~storyBible.premise THEN "parse-premise"
            ELSE IF Len(Chapters) = 0 THEN "generate-chapter"
            ELSE IF Len(Characters) = 0 THEN "create-character"
            ELSE IF AnyChapter("in-progress") THEN "continue in-progress"
            ELSE IF AnyChapter("draft") THEN "start draft"
            ELSE IF AnyChapter("needs-revision") THEN "address revision"
            ELSE "check-consistency"

----------------------------------------------------------------------------
(* Claims C21 to C30 *)

\* the same check-consistency call with another session and another outcome of
\* the advisory call
WithSession(p, session, aiFails) == [p EXCEPT !.session = session, !.aiFails = aiFails]

\* C21: a check-consistency run returns the same issue list, whatever the
\* session and whatever the outcome of the advisory call; the advisory call is
\* made exactly when there is an issue and a session, suggestions are filled
\* only by a call that succeeded, and a call that failed leaves them empty and
\* the run successful.
C21_IssuesIndependentOfAdvisory ==
    [][(result'.op = "check-consistency" /\ result'.success) =>
        /\ \A session, aiFails \in BOOLEAN :
              LET other == checkConsistencyDirect(storyBible,
                                WithSession(result'.params, session, aiFails))
              IN  /\ other.result.success
                  /\ other.result.issues = result'.issues
                  /\ other.result.fixedIssues = result'.fixedIssues
                  /\ other.storyBible = storyBible'
        /\ result'.aiCalls =
              (IF Len(result'.issues) > 0 /\ result'.params.session THEN 1 ELSE 0)
        /\ result'.suggestions > 0 =>
              result'.aiCalls = 1 /\ ~result'.params.aiFails
        /\ (result'.aiCalls = 1 /\ result'.params.aiFails) => result'.suggestions = 0
       ]_vars

\* the advisory call was made for a list of issues and was rejected: the run
\* succeeded with the issues and without suggestions
C21_Witness ==
    /\ result.op = "check-consistency" /\ result.success
    /\ result.params.session /\ result.params.aiFails
    /\ Len(result.issues) > 0
    /\ result.aiCalls = 1
    /\ result.suggestions = 0

\* the last step was one of the two reporting operations
Reads == result'.op \in {"get-story-status", "next-chapter"}

\* C22: get-story-status and next-chapter write nothing: the story bible is the
\* same after the call as before, no other document is written, and every
\* factory, check and parse-premise call gives on the document after the call
\* what it gives on the document before it.
C22_ReportsNeverWrite ==
    [][Reads =>
        /\ storyBible' = storyBible
        /\ result'.writes = {}
        /\ \A p \in CharacterParams :
              createCharacterDirect(storyBible', p) = createCharacterDirect(storyBible, p)
        /\ \A p \in ChapterParams :
              generateChapterDirect(storyBible', p) = generateChapterDirect(storyBible, p)
        /\ \A p \in CheckParams :
              checkConsistencyDirect(storyBible', p) = checkConsistencyDirect(storyBible, p)
        /\ \A p \in PremiseParams :
              parsePremiseDirect(storyBible', p) = parsePremiseDirect(storyBible, p)
       ]_vars

\* get-story-status has reported on a document with a chapter, a scene and a
\* character
C22_Witness ==
    /\ result.op = "get-story-status" /\ result.success
    /\ Len(Chapters) > 0 /\ Len(Scenes) > 0 /\ Len(Characters) > 0

----------------------------------------------------------------------------
(* SpecScenes: generate-chapter creating and updating chapters, with and     *)
(* without scenes                                                            *)

ScenesMaxCharacters == 1
ScenesMaxChapters == 2
ScenesMaxScenes == 5

\* sceneCount absent, 0, 1 and 2; a new chapter and an update of chapter 1 or 2
ScenesChapterParams ==
    {[DefaultChapter EXCEPT !.sceneCount = c, !.chapterId = k] :
        c \in {<<>>, <<0>>, <<1>>, <<2>>}, k \in 0..ScenesMaxChapters}
    \cup {[DefaultChapter EXCEPT !.generateScenes = FALSE, !.chapterId = k] :
            k \in 0..ScenesMaxChapters}
    \cup {[DefaultChapter EXCEPT !.ai = "unparseable"],
          [DefaultChapter EXCEPT !.fault = "writeBible"]}

NextScenes ==
    \/ ParsePremise(DefaultPremise)
    \/ CreateCharacter(DefaultCharacter, ScenesMaxCharacters)
    \/ \E p \in ScenesChapterParams :
            GenerateChapter(p, ScenesMaxChapters, ScenesMaxScenes)

SpecScenes == Init /\ [][NextScenes]_vars

\* generate-chapter has succeeded in this step
Generated == result'.op = "generate-chapter" /\ result'.success

\* the id of the chapter the call works on
WorkingId == IF result'.params.chapterId = 0 THEN NextId(Chapters)
             ELSE result'.params.chapterId

\* the chapter's scenes list before the call; a new chapter has none
ScenesListBefore ==
    LET found == SelectSeq(Chapters, LAMBDA c : c.id = WorkingId)
    IN  IF result'.params.chapterId = 0 THEN <<>> ELSE found[1].scenes

\* the chapter's scenes list after the call
ScenesListAfter ==
    SelectSeq(storyBible'.chapters, LAMBDA c : c.id = WorkingId)[1].scenes

\* the number of scenes asked for: the parameter, 3 when it is absent
Asked == IF result'.params.sceneCount = <<>> THEN 3 ELSE result'.params.sceneCount[1]

\* C23: a successful generate-chapter with generateScenes appends exactly
\* sceneCount scenes (3 when the parameter is absent) to the scenes
\* collection, with ids count+1 .. count+sceneCount for count the scenes there
\* were, each a draft dialogue scene of the working chapter, and appends the
\* same ids in the same order to the chapter's scenes list; without
\* generateScenes the collection and the list are unchanged.
C23_PlaceholderScenes ==
    [][Generated =>
        IF result'.params.generateScenes
        THEN /\ Len(storyBible'.scenes) = Len(Scenes) + Asked
             /\ SubSeq(storyBible'.scenes, 1, Len(Scenes)) = Scenes
             /\ \A i \in 1..Asked :
                   LET scene == storyBible'.scenes[Len(Scenes) + i]
                   IN  /\ scene.id = Len(Scenes) + i
                       /\ scene.sceneType = "dialogue"
                       /\ scene.status = "draft"
                       /\ scene.chapterId = WorkingId
             /\ ScenesListAfter = ScenesListBefore \o [i \in 1..Asked |-> Len(Scenes) + i]
        ELSE /\ storyBible'.scenes = Scenes
             /\ ScenesListAfter = ScenesListBefore
       ]_vars

\* a call without sceneCount has updated chapter 1, which had scenes: the
\* three new scenes follow the two there were
C23_Witness ==
    /\ result.op = "generate-chapter" /\ result.success
    /\ result.params.generateScenes /\ result.params.sceneCount = <<>>
    /\ result.params.chapterId = 1
    /\ Len(Scenes) = 5
    /\ Chapters[1].scenes = <<1, 2, 3, 4, 5>>

\* the positions of the scenes with this id
ScenesWithId(id) == {i \in DOMAIN Scenes : Scenes[i].id = id}

\* the places (chapter, position in its scenes list) that name this scene id
Owners(id) ==
    UNION {{<<j, k>> : k \in {n \in DOMAIN Chapters[j].scenes :
                                    Chapters[j].scenes[n] = id}} :
           j \in DOMAIN Chapters}

\* C24: in a story bible built by parse-premise and generate-chapter alone,
\* scene ids are pairwise distinct, every id in a chapter's scenes list is the
\* id of exactly one scene, whose chapterId is that chapter's id, and every
\* scene is named once in the scenes list of exactly one chapter.
C24_ScenesAndOwners ==
    /\ \A i, j \in DOMAIN Scenes : Scenes[i].id = Scenes[j].id => i = j
    /\ \A j \in DOMAIN Chapters :
          \A k \in DOMAIN Chapters[j].scenes :
             /\ Cardinality(ScenesWithId(Chapters[j].scenes[k])) = 1
             /\ \A i \in ScenesWithId(Chapters[j].scenes[k]) :
                   Scenes[i].chapterId = Chapters[j].id
    /\ \A i \in DOMAIN Scenes : Cardinality(Owners(Scenes[i].id)) = 1

\* chapter 1 was created with one scene, chapter 2 with one scene, and
\* chapter 1 was then updated with two more
C24_Witness ==
    /\ result.op = "generate-chapter" /\ result.success
    /\ result.params.chapterId = 1
    /\ Len(Chapters) = 2
    /\ Chapters[1].scenes = <<1, 3, 4>>
    /\ Chapters[2].scenes = <<2>>

----------------------------------------------------------------------------
(* SpecUpdate: generate-chapter on chapters the author has worked on, as     *)
(* time passes                                                               *)

UpdateMaxChapters == 2
UpdateMaxScenes == 2

\* a new chapter, with and without a chapter number; an update of chapter 1 or
\* 2; an update that passes a chapter number and a priority as well
UpdateChapterParams ==
    {DefaultChapter, [DefaultChapter EXCEPT !.chapterNumber = 3]}
    \cup {[DefaultChapter EXCEPT !.chapterId = k] : k \in 1..UpdateMaxChapters}
    \cup {[DefaultChapter EXCEPT !.chapterId = 1, !.chapterNumber = 3,
                                 !.priority = "high", !.generateScenes = FALSE]}

NextUpdate ==
    \/ \E p \in Timed({DefaultPremise}) : ParsePremise(p)
    \/ \E p \in Timed(UpdateChapterParams) :
          GenerateChapter(p, UpdateMaxChapters, UpdateMaxScenes)
    \/ \E i \in 1..UpdateMaxChapters, status \in {"in-progress", "completed"} :
          EditChapterStatus(i, status)

SpecUpdate == Init /\ [][NextUpdate]_vars

\* the position of the chapter an update works on: the first with the id
Target ==
    CHOOSE j \in DOMAIN Chapters :
        /\ Chapters[j].id = result'.params.chapterId
        /\ \A k \in 1..(j - 1) : Chapters[k].id # result'.params.chapterId

\* C25: a successful generate-chapter with the id of an existing chapter
\* leaves the chapters collection with the same length and order, keeps the
\* chapter's id, chapterNumber, status and createdAt and every other chapter
\* as it was; a successful call without chapterId appends exactly one chapter,
\* a draft, and leaves the chapters there were unchanged.
C25_UpdateInPlace ==
    [][Generated =>
        IF result'.params.chapterId # 0
        THEN /\ Len(storyBible'.chapters) = Len(Chapters)
             /\ \A j \in DOMAIN Chapters :
                   /\ storyBible'.chapters[j].id = Chapters[j].id
                   /\ j # Target => storyBible'.chapters[j] = Chapters[j]
             /\ storyBible'.chapters[Target].chapterNumber = Chapters[Target].chapterNumber
             /\ storyBible'.chapters[Target].status = Chapters[Target].status
             /\ storyBible'.chapters[Target].createdAt = Chapters[Target].createdAt
        ELSE /\ Len(storyBible'.chapters) = Len(Chapters) + 1
             /\ SubSeq(storyBible'.chapters, 1, Len(Chapters)) = Chapters
             /\ storyBible'.chapters[Len(Chapters) + 1].status = "draft"
       ]_vars

\* chapter 1 of two, completed by the author and created earlier, has been
\* updated by a call that also passed chapter number 3 and priority high: it
\* is still chapter number 1, completed, of medium priority
C25_Witness ==
    /\ result.op = "generate-chapter" /\ result.success
    /\ result.params.chapterId = 1 /\ result.params.chapterNumber = 3
    /\ Len(Chapters) = 2
    /\ Chapters[1].id = 1 /\ Chapters[1].chapterNumber = 1
    /\ Chapters[1].status = "completed" /\ Chapters[1].priority = "medium"
    /\ Chapters[1].createdAt < result.params.now

----------------------------------------------------------------------------
(* SpecArc: the character check on characters with and without an arc *)

ArcMaxCharacters == 2
ArcMaxChapters == 3

\* a profile with an arc, one whose reply has no arc (the placeholder is
\* written), and two without any arc: no enrichment asked, reply unparseable
ArcCharacterParams ==
    {DefaultCharacter,
     [DefaultCharacter EXCEPT !.ai = "objectNoArc"],
     [DefaultCharacter EXCEPT !.generate = FALSE],
     [DefaultCharacter EXCEPT !.ai = "unparseable"]}

ArcChapterParams ==
    {[SceneLess EXCEPT !.characters = cs] : cs \in {<<>>, <<1>>, <<1, 2>>}}

ArcCheckParams ==
    {DefaultCheck,
     [DefaultCheck EXCEPT !.checkType = "character"],
     [DefaultCheck EXCEPT !.checkType = "timeline"],
     [DefaultCheck EXCEPT !.characterId = 2],
     [DefaultCheck EXCEPT !.startChapter = 2],
     [DefaultCheck EXCEPT !.endChapter = 1]}

NextArc ==
    \/ ParsePremise(DefaultPremise)
    \/ \E p \in ArcCharacterParams : CreateCharacter(p, ArcMaxCharacters)
    \/ \E p \in ArcChapterParams : GenerateChapter(p, ArcMaxChapters, 0)
    \/ \E i \in 1..ArcMaxCharacters : EditCharacterArc(i, <<"">>)
    \/ \E p \in ArcCheckParams : CheckConsistency(p)

SpecArc == Init /\ [][NextArc]_vars

\* the in-scope chapters of the run that list character id
ListedBy(id) ==
    {j \in DOMAIN Chapters :
        /\ Chapters[j].chapterNumber >= result'.params.startChapter
        /\ (result'.params.endChapter # 0 =>
                Chapters[j].chapterNumber <= result'.params.endChapter)
        /\ Includes(Chapters[j].characters, id)}

\* the arc summary is absent, empty or the placeholder
ArcUndefined(character) ==
    \/ character.arc = <<>>
    \/ character.arc \in {<<"">>, <<"To be developed">>}

\* the character-arc-undefined issues of the run for character id
ArcIssuesFor(id) ==
    {k \in DOMAIN result'.issues :
        /\ result'.issues[k].type = "character-arc-undefined"
        /\ result'.issues[k].characterId = id}

ParentsOf(scene) == {j \in DOMAIN Chapters : Chapters[j].id = scene.chapterId}

\* the check-consistency calls of every type and scope on the document
AnyCheck ==
    {[DefaultCheck EXCEPT !.checkType = t, !.characterId = x, !.startChapter = a] :
        t \in {"all", "character"}, x \in 0..FactoryMaxCharacters,
        a \in 1..FactoryMaxChapters}

\* C27: in a story bible built by parse-premise, create-character and
\* generate-chapter alone every scene's characters are among the characters
\* of its parent chapter, and no character check, of any scope, reports a
\* character-unlisted issue.
C27_FactoriesLeaveNothingUnlisted ==
    storyBible.exists =>
        /\ \A i \in DOMAIN Scenes : \A j \in ParentsOf(Scenes[i]) :
              Range(Scenes[i].characters) \subseteq Range(Chapters[j].characters)
        /\ \A p \in AnyCheck :
              IssuesOfType(checkConsistencyDirect(storyBible, p).result.issues,
                           "character-unlisted") = {}

\* character 1 exists and sits in a scene of a chapter that lists it, next to
\* a chapter without characters that has a scene as well
C27_Witness ==
    /\ Len(Characters) > 0 /\ Len(Chapters) = 2 /\ Len(Scenes) = 2
    /\ \E i, k \in DOMAIN Scenes :
          /\ Scenes[i].characters = <<1>>
          /\ Scenes[k].characters = <<>>
          /\ Scenes[i].chapterId # Scenes[k].chapterId

\* C28: a check-consistency run that returns success false leaves the story
\* bible as it was before the call: no auto-fix of a failed run is saved.
C28_FailedCheckLeavesBible ==
    [][(result'.op = "check-consistency" /\ ~result'.success) =>
            storyBible' = storyBible]_vars

----------------------------------------------------------------------------
(* SpecFix: auto-fix on chapters with several scenes *)

FixMaxCharacters == 2
FixMaxChapters == 2
FixMaxScenes == 3

FixChapterParams ==
    {DefaultChapter, [DefaultChapter EXCEPT !.sceneCount = <<2>>]}

FixCheckParams ==
    {DefaultCheck, ConservativeFix, AggressiveFix,
     [AggressiveFix EXCEPT !.startChapter = 2],
     [AggressiveFix EXCEPT !.characterId = 1]}

NextFix ==
    \/ ParsePremise(DefaultPremise)
    \/ CreateCharacter(DefaultCharacter, FixMaxCharacters)
    \/ \E p \in FixChapterParams : GenerateChapter(p, FixMaxChapters, FixMaxScenes)
    \/ \E i \in 1..FixMaxScenes, x \in 1..FixMaxCharacters : EditSceneCharacters(i, x)
    \/ \E p \in FixCheckParams : CheckConsistency(p)

SpecFix == Init /\ [][NextFix]_vars

\* how often x occurs in a list
CountIn(list, x) == Cardinality({k \in DOMAIN list : list[k] = x})

\* the positions, in a list of issues, of the character-unlisted issues that
\* name chapter c and character x
NamingPair(issues, c, x) ==
    {k \in DOMAIN issues :
        /\ issues[k].type = "character-unlisted"
        /\ issues[k].chapterId = c
        /\ issues[k].characterId = x}

\* a successful check-consistency with autoFix has run in this step
AutoFixed == Checked /\ result'.params.autoFix

\* C29: auto-fix never appends a character id to a characters list that holds
\* it: however many character-unlisted issues name a (chapter, character)
\* pair, the id is in the list once afterwards and at most one of the issues
\* is in fixedIssues, exactly one when the id was appended; the same call
\* made again at once fixes nothing and does not write the story bible.
C29_FixOnceAndIdempotent ==
    [][AutoFixed =>
        /\ \A j \in DOMAIN Chapters : \A x \in 1..FixMaxCharacters :
              LET before == CountIn(Chapters[j].characters, x)
                  after == CountIn(storyBible'.chapters[j].characters, x)
                  fixes == Cardinality(NamingPair(result'.fixedIssues, Chapters[j].id, x))
              IN  /\ before > 0 => (after = before /\ fixes = 0)
                  /\ before = 0 => (after <= 1 /\ fixes = after)
        /\ LET again == checkConsistencyDirect(storyBible', result'.params)
           IN  /\ again.result.success
               /\ again.result.fixedIssues = <<>>
               /\ again.storyBible = storyBible'
               /\ "story-bible" \notin again.result.writes
       ]_vars

\* two issues named the same chapter and character, the character sitting in
\* two scenes of the chapter; one of them was fixed and the chapter lists the
\* character once
C29_Witness ==
    /\ result.op = "check-consistency" /\ result.success
    /\ result.params.autoFix /\ result.params.fixMode = "aggressive"
    /\ \E j \in DOMAIN Chapters : \E x \in 1..FixMaxCharacters :
          /\ Cardinality(NamingPair(result.issues, Chapters[j].id, x)) = 2
          /\ Cardinality(NamingPair(result.fixedIssues, Chapters[j].id, x)) = 1
          /\ CountIn(Chapters[j].characters, x) = 1

----------------------------------------------------------------------------
(* SpecNext: next-chapter on chapters of every status and priority *)

NextMaxChapters == 3

\* chapters of the three priorities, one that lists character 1 and plot
\* thread 1, and high-priority chapters numbered 5 and 1 out of turn
NextChapterChapterParams ==
    {[SceneLess EXCEPT !.priority = q] : q \in PRIORITIES}
    \cup {[SceneLess EXCEPT !.characters = <<1>>, !.plotThreads = <<1>>]}
    \cup {[SceneLess EXCEPT !.priority = "high", !.chapterNumber = n] : n \in {1, 5}}

\* no filter, each filter alone, and two filters together
NextChapterFilters ==
    {DefaultNextChapter,
     [DefaultNextChapter EXCEPT !.characterFocus = <<1>>],
     [DefaultNextChapter EXCEPT !.plotThread = <<1>>],
     [DefaultNextChapter EXCEPT !.status = "draft", !.priority = "high"]}
    \cup {[DefaultNextChapter EXCEPT !.status = st] :
            st \in {"draft", "in-progress", "completed"}}
    \cup {[DefaultNextChapter EXCEPT !.priority = q] : q \in {"high", "low"}}

NextNext ==
    \/ ParsePremise(DefaultPremise)
    \/ \E p \in NextChapterChapterParams : GenerateChapter(p, NextMaxChapters, 0)
    \/ \E i \in 1..NextMaxChapters,
          status \in {"in-progress", "needs-revision", "completed"} :
            EditChapterStatus(i, status)
    \/ \E p \in NextChapterFilters : NextChapter(p)

SpecNext == Init /\ [][NextNext]_vars

\* next-chapter has answered
Advised == result.op = "next-chapter" /\ result.success

\* the chapters that satisfy every filter of the call
Candidates ==
    {j \in DOMAIN Chapters :
        /\ result.params.status \in {"", Chapters[j].status}
        /\ result.params.priority \in {"", Chapters[j].priority}
        /\ \A x \in Range(result.params.characterFocus) :
              x \in Range(Chapters[j].characters)
        /\ \A t \in Range(result.params.plotThread) :
              t \in Range(Chapters[j].plotThreads)}

CandidatesIn(status) == {j \in Candidates : Chapters[j].status = status}

\* high above medium above low
Rank(priority) == IF priority = "high" THEN 3 ELSE IF priority = "medium" THEN 2 ELSE 1

\* the answer is the chapter at position j
Returns(j) == result.nextChapter = <<Chapters[j]>>

\* the answer is to create chapter number n
RecommendsCreate(n) == result.nextChapter = <<>> /\ result.chapterNumber = n

\* C30: next-chapter returns, among the chapters that satisfy every filter,
\* the first in-progress chapter, failing that the first needs-revision
\* chapter, failing that the draft chapter of highest priority, the lowest
\* chapter number breaking ties; the chapter returned satisfies every filter;
\* when no such chapter exists it recommends creating chapter number
\* max(chapterNumber of all chapters) + 1, and chapter 1 when there is none.
C30_NextChapterChoice ==
    Advised =>
        IF Len(Chapters) = 0 THEN RecommendsCreate(1)
        ELSE IF CandidatesIn("in-progress") # {}
        THEN \E j \in CandidatesIn("in-progress") :
                Returns(j) /\ \A k \in CandidatesIn("in-progress") : j <= k
        ELSE IF CandidatesIn("needs-revision") # {}
        THEN \E j \in CandidatesIn("needs-revision") :
                Returns(j) /\ \A k \in CandidatesIn("needs-revision") : j <= k
        ELSE IF CandidatesIn("draft") # {}
        THEN \E j \in CandidatesIn("draft") :
                /\ Returns(j)
                /\ \A k \in CandidatesIn("draft") :
                      \/ Rank(Chapters[j].priority) > Rank(Chapters[k].priority)
                      \/ /\ Rank(Chapters[j].priority) = Rank(Chapters[k].priority)
                         /\ Chapters[j].chapterNumber <= Chapters[k].chapterNumber
        ELSE RecommendsCreate(
                MaxOfSet({Chapters[j].chapterNumber : j \in DOMAIN Chapters}) + 1)

\* asked with no filter, next-chapter has passed over an earlier draft of
\* medium priority and a high-priority draft numbered 5 and returned the
\* high-priority draft numbered 1 that comes last in the list
C30_Witness ==
    /\ Advised /\ result.params = DefaultNextChapter
    /\ Len(Chapters) = 3
    /\ Chapters[1].priority = "medium" /\ Chapters[1].status = "draft"
    /\ Chapters[2].priority = "high" /\ Chapters[2].chapterNumber = 5
    /\ Chapters[2].status = "draft"
    /\ Chapters[3].priority = "high" /\ Chapters[3].status = "draft"
    /\ Chapters[3].chapterNumber = 1
    /\ Returns(3)

====
